---- MODULE Spec2Model ----
(***************************************************************************)
(* nova-ecs-render-three: the per-frame synchronization system             *)
(* (ThreeRenderSystem), the component constructors, MaterialFactory and    *)
(* GeometryFactory, the preset category tables, ThreeRenderPlugin,         *)
(* ThreeEditorBridge, EntityConverter and CameraUtils.animateCamera.       *)
(*                                                                         *)
(* Conventions.  Fractional numbers (opacity, roughness, intensity,        *)
(* lengths) are fixed point, in hundredths: 1.0 is 100.  Angles in radians *)
(* are in millionths.  A THREE object is an id (Null is 0) into the maps   *)
(* of the renderer side; dispose() calls are recorded in a set, as a mock  *)
(* of the library would record them.                                       *)
(***************************************************************************)
EXTENDS Integers, Sequences, FiniteSets, TLC

\* ------------------------------------------------------------------ bounds
MaxFrames == 2
MaxCalls == 3
MaxGeoCalls == 4

\* --------------------------------------------------------- JS value helpers
Null == 0

\* Math.PI in millionths
PiMicro == 3141593

Vec(x, y, z) == [x |-> x, y |-> y, z |-> z]

\* deg * Math.PI / 180, in millionths of a radian
DegToRad(deg) == (deg * PiMicro) \div 180

\* A value of a `color` field: a string (its characters) or, at run time, a
\* number (THREE accepts both wherever it takes a colour).
StrColor(s) == [isStr |-> TRUE, s |-> s, n |-> 0]
NumColor(n) == [isStr |-> FALSE, s |-> <<>>, n |-> n]

HexChars == {"0", "1", "2", "3", "4", "5", "6", "7", "8", "9",
             "a", "b", "c", "d", "e", "f", "A", "B", "C", "D", "E", "F"}

HexVal(c) ==
  CASE c = "0" -> 0 [] c = "1" -> 1 [] c = "2" -> 2 [] c = "3" -> 3
    [] c = "4" -> 4 [] c = "5" -> 5 [] c = "6" -> 6 [] c = "7" -> 7
    [] c = "8" -> 8 [] c = "9" -> 9
    [] c \in {"a", "A"} -> 10 [] c \in {"b", "B"} -> 11
    [] c \in {"c", "C"} -> 12 [] c \in {"d", "D"} -> 13
    [] c \in {"e", "E"} -> 14 [] c \in {"f", "F"} -> 15

\* NaN, the result of a failed parseInt
NaN == -1

RECURSIVE HexPrefix(_, _, _)
\* the value of the longest prefix of hex digits of s from position i on,
\* NaN when there is none (acc is NaN until a digit is read)
HexPrefix(s, i, acc) ==
  IF i > Len(s) \/ s[i] \notin HexChars
  THEN acc
  ELSE HexPrefix(s, i + 1, (IF acc = NaN THEN 0 ELSE acc) * 16 + HexVal(s[i]))

RECURSIVE DecPrefix(_, _, _)
DecPrefix(s, i, acc) ==
  IF i > Len(s) \/ s[i] \notin {"0", "1", "2", "3", "4", "5", "6", "7", "8", "9"}
  THEN acc
  ELSE DecPrefix(s, i + 1, (IF acc = NaN THEN 0 ELSE acc) * 10 + HexVal(s[i]))

\* String.prototype.replace('#', '0x'): the first '#' only
RECURSIVE ReplaceHash(_)
ReplaceHash(s) ==
  IF s = <<>> THEN <<>>
  ELSE IF Head(s) = "#" THEN <<"0", "x">> \o Tail(s)
  ELSE <<Head(s)>> \o ReplaceHash(Tail(s))

\* parseInt(s) without a radix: a 0x / 0X prefix selects base 16
ParseInt(s) ==
  IF Len(s) >= 2 /\ s[1] = "0" /\ s[2] \in {"x", "X"}
  THEN HexPrefix(s, 3, NaN)
  ELSE DecPrefix(s, 1, NaN)

\* THREE.Color.setHex(hex): Math.floor, then the three bytes; NaN >> 16 is 0
SetHex(hex) == IF hex = NaN THEN 0 ELSE hex % 16777216

White == 16777215

\* THREE.Color named colours (the ones used here)
ColorKeyword(s) ==
  CASE s = <<"r", "e", "d">> -> 16711680
    [] s = <<"w", "h", "i", "t", "e">> -> White
    [] OTHER -> NaN

\* THREE.Color.setStyle(style) on a fresh Color (white): #rgb, #rrggbb, a
\* keyword; anything else leaves the colour as it was
SetStyle(s) ==
  IF Len(s) >= 2 /\ s[1] = "#" /\ \A i \in 2..Len(s) : s[i] \in HexChars
  THEN IF Len(s) = 4
       THEN HexPrefix(<<s[2], s[2], s[3], s[3], s[4], s[4]>>, 1, NaN)
       ELSE IF Len(s) = 7 THEN HexPrefix(s, 2, NaN)
       ELSE White
  ELSE IF ColorKeyword(s) # NaN THEN ColorKeyword(s) ELSE White

\* new THREE.Color(value)
ThreeColor(c) == IF c.isStr THEN SetStyle(c.s) ELSE SetHex(c.n)

\* ------------------------------------------------------------- components
Has(config, k) == k \in DOMAIN config

\* JavaScript truthiness of a colour value ('' and 0 are falsy)
ColorTruthy(c) == IF c.isStr THEN c.s # <<>> ELSE c.n # 0

\* config.k || d, for a number, a boolean, a string and a colour
OrNum(config, k, d) == IF Has(config, k) /\ config[k] # 0 THEN config[k] ELSE d
OrBool(config, k, d) == IF Has(config, k) /\ config[k] THEN TRUE ELSE d
OrStr(config, k, d) == IF Has(config, k) /\ config[k] # "" THEN config[k] ELSE d
OrColor(config, k, d) ==
  IF Has(config, k) /\ ColorTruthy(config[k]) THEN config[k] ELSE d

Undefined == "undefined"

TransformComponent(position, rotation, scale) ==
  [has |-> TRUE, position |-> position, rotation |-> rotation, scale |-> scale]

ThreeMeshComponent(mesh) ==
  [has |-> TRUE, mesh |-> mesh, needsUpdate |-> FALSE]

ThreeMaterialComponent(config) ==
  [has |-> TRUE,
   materialType |-> OrStr(config, "materialType", "standard"),
   color |-> OrColor(config, "color", StrColor(<<"#", "f", "f", "f", "f", "f", "f">>)),
   metalness |-> OrNum(config, "metalness", 0),
   roughness |-> OrNum(config, "roughness", 100),
   emissive |-> OrColor(config, "emissive", StrColor(<<"#", "0", "0", "0", "0", "0", "0">>)),
   emissiveIntensity |-> OrNum(config, "emissiveIntensity", 0),
   transparent |-> OrBool(config, "transparent", FALSE),
   opacity |-> OrNum(config, "opacity", 100),
   wireframe |-> OrBool(config, "wireframe", FALSE),
   texture |-> IF Has(config, "texture") THEN config["texture"] ELSE Undefined,
   needsUpdate |-> FALSE]

\* parameters: the record of numbers, or null at run time
Params(p) == [isNull |-> FALSE, p |-> p]
NullParams == [isNull |-> TRUE, p |-> <<>>]

ThreeGeometryComponent(geometryType, parameters) ==
  [has |-> TRUE, geometryType |-> geometryType, parameters |-> parameters,
   needsUpdate |-> FALSE]

ThreeLightComponent(config) ==
  [has |-> TRUE,
   lightType |-> OrStr(config, "lightType", "directional"),
   color |-> OrColor(config, "color", StrColor(<<"#", "f", "f", "f", "f", "f", "f">>)),
   intensity |-> OrNum(config, "intensity", 100),
   castShadow |-> OrBool(config, "castShadow", FALSE),
   light |-> Null,
   needsUpdate |-> FALSE]

ThreeCameraComponent(config) ==
  [has |-> TRUE,
   cameraType |-> OrStr(config, "cameraType", "perspective"),
   fov |-> OrNum(config, "fov", 7500),
   aspect |-> OrNum(config, "aspect", 100),
   near |-> OrNum(config, "near", 10),
   far |-> OrNum(config, "far", 100000),
   camera |-> Null,
   needsUpdate |-> FALSE]

\* an entity without the component
NoTransform ==
  [TransformComponent(Vec(0, 0, 0), Vec(0, 0, 0), Vec(100, 100, 100)) EXCEPT !.has = FALSE]
NoMesh == [ThreeMeshComponent(Null) EXCEPT !.has = FALSE]
NoMaterial == [ThreeMaterialComponent(<<>>) EXCEPT !.has = FALSE]
NoGeometry == [ThreeGeometryComponent("box", Params(<<>>)) EXCEPT !.has = FALSE]
NoLight == [ThreeLightComponent(<<>>) EXCEPT !.has = FALSE]
NoCamera == [ThreeCameraComponent(<<>>) EXCEPT !.has = FALSE]

\* ------------------------------------------------ ThreeRenderSystem: state
VARIABLES
  entities,         \* world.entities: the entities in creation order
  world,            \* this.world is set
  isInitialized,    \* _isInitialized
  frameCount,       \* _frameCount
  options,          \* _options
  camera,           \* this.camera: the camera rendered through
  scene,            \* scene.children
  meshes,           \* THREE.Mesh objects by id
  geometries,       \* THREE.BufferGeometry objects by id
  materials,        \* THREE.Material objects by id
  lights,           \* THREE.Light objects by id
  cameras,          \* THREE.Camera objects by id
  disposed,         \* geometries and materials on which dispose() was called
  rendererDisposed, \* renderer.dispose() was called
  nextId,           \* the next object id
  errors,           \* entity ids console.error reported in the last update()
  lastRender,       \* the last renderer.render(scene, camera) call
  threw,            \* the last update() threw
  calls,            \* number of application calls other than update()
  disturbed         \* dispose(), onRemovedFromWorld() or ThreeMeshComponent.dispose() ran

\* The renderer side as one record, threaded through the private methods.
St ==
  [entities |-> entities, camera |-> camera, scene |-> scene, meshes |-> meshes,
   geometries |-> geometries, materials |-> materials, lights |-> lights,
   cameras |-> cameras, disposed |-> disposed, nextId |-> nextId,
   errors |-> errors, thrown |-> FALSE]

Ok(st) == [thrown |-> FALSE, st |-> st]
Thrown(st) == [thrown |-> TRUE, st |-> st]

\* parameters.k || d
Param(parameters, k, d) ==
  IF k \in DOMAIN parameters.p /\ parameters.p[k] # 0 THEN parameters.p[k] ELSE d

SwitchedGeometryTypes == {"box", "sphere", "plane", "cylinder", "cone", "torus"}

\* _createGeometry: reading a property of null parameters is a TypeError
CreateGeometryThrows(geometryComp) ==
  /\ geometryComp.has
  /\ geometryComp.geometryType \in SwitchedGeometryTypes
  /\ geometryComp.parameters.isNull

\* the constructor call _createGeometry makes: class and arguments
GeometryCall(geometryComp) ==
  LET t == geometryComp.geometryType
      q == geometryComp.parameters
      Box1 == [class |-> "BoxGeometry", args |-> <<100, 100, 100>>]
  IN IF ~geometryComp.has THEN Box1
     ELSE CASE t = "box" ->
            [class |-> "BoxGeometry",
             args |-> <<Param(q, "width", 100), Param(q, "height", 100),
                        Param(q, "depth", 100)>>]
       [] t = "sphere" ->
            [class |-> "SphereGeometry",
             args |-> <<Param(q, "radius", 50), Param(q, "widthSegments", 16),
                        Param(q, "heightSegments", 12)>>]
       [] t = "plane" ->
            [class |-> "PlaneGeometry",
             args |-> <<Param(q, "width", 100), Param(q, "height", 100)>>]
       [] t = "cylinder" ->
            [class |-> "CylinderGeometry",
             args |-> <<Param(q, "radiusTop", 50), Param(q, "radiusBottom", 50),
                        Param(q, "height", 100), Param(q, "radialSegments", 8)>>]
       [] t = "cone" ->
            [class |-> "ConeGeometry",
             args |-> <<Param(q, "radius", 50), Param(q, "height", 100),
                        Param(q, "radialSegments", 8)>>]
       [] t = "torus" ->
            [class |-> "TorusGeometry",
             args |-> <<Param(q, "radius", 40), Param(q, "tube", 20),
                        Param(q, "radialSegments", 8), Param(q, "tubularSegments", 6)>>]
       [] OTHER -> Box1

\* _createGeometry: every path returns new THREE.XxxGeometry(...), an object
\* made by a constructor; GeometryFactory and its cache are not called
CreateGeometry(geometryComp) ==
  [by |-> "constructor"] @@ GeometryCall(geometryComp)

\* (1.0 - roughness) * 100
Shininess(roughness) == (100 - roughness) * 100

CreateMaterial(materialComp) ==
  LET m == materialComp
      config == [color |-> ThreeColor(m.color), transparent |-> m.transparent,
                 opacity |-> m.opacity, wireframe |-> m.wireframe]
      pbr == [metalness |-> m.metalness, roughness |-> m.roughness,
              emissive |-> ThreeColor(m.emissive),
              emissiveIntensity |-> m.emissiveIntensity]
  IN IF ~m.has THEN [class |-> "MeshStandardMaterial", color |-> 5025616]
     ELSE CASE m.materialType = "standard" ->
            [class |-> "MeshStandardMaterial"] @@ config @@ pbr
       [] m.materialType = "basic" ->
            [class |-> "MeshBasicMaterial"] @@ config
       [] m.materialType = "phong" ->
            [class |-> "MeshPhongMaterial"] @@ config
              @@ [shininess |-> Shininess(m.roughness)]
       [] m.materialType = "physical" ->
            [class |-> "MeshPhysicalMaterial"] @@ config @@ pbr
       [] m.materialType = "wireframe" ->
            [class |-> "MeshBasicMaterial"] @@ [config EXCEPT !.wireframe = TRUE]
       [] OTHER -> [class |-> "MeshStandardMaterial"] @@ config

\* new THREE.XxxLight(color, intensity): Object3D.castShadow starts false
NewLight(class, lightComp) ==
  [class |-> class, color |-> ThreeColor(lightComp.color),
   intensity |-> lightComp.intensity, castShadow |-> FALSE,
   position |-> Vec(0, 0, 0)]

\* _createLight: the light object, before scene.add
CreateLight(lightComp, enableShadows) ==
  LET t == lightComp.lightType
      Shadowed(class) ==
        [NewLight(class, lightComp) EXCEPT
           !.castShadow = IF enableShadows THEN lightComp.castShadow ELSE @]
  IN CASE t = "ambient" -> NewLight("AmbientLight", lightComp)
       [] t = "directional" -> Shadowed("DirectionalLight")
       [] t = "point" -> Shadowed("PointLight")
       [] t = "spot" -> Shadowed("SpotLight")
       [] t = "hemisphere" -> NewLight("HemisphereLight", lightComp)
       [] OTHER -> NewLight("DirectionalLight", lightComp)

\* _createCamera: the camera object
CreateCamera(cameraComp) ==
  LET c == cameraComp
      size == 10
  IN IF c.cameraType = "perspective"
     THEN [class |-> "PerspectiveCamera", fov |-> c.fov, aspect |-> c.aspect,
           near |-> c.near, far |-> c.far,
           position |-> Vec(0, 0, 0), rotation |-> Vec(0, 0, 0)]
     ELSE [class |-> "OrthographicCamera", left |-> (0 - size) * c.aspect,
           right |-> size * c.aspect, top |-> size * 100, bottom |-> (0 - size) * 100,
           near |-> c.near, far |-> c.far,
           position |-> Vec(0, 0, 0), rotation |-> Vec(0, 0, 0)]

\* _setupDefaultCamera
DefaultCamera ==
  [class |-> "PerspectiveCamera", fov |-> 7500, aspect |-> 133, near |-> 10,
   far |-> 100000, position |-> Vec(500, 500, 500), rotation |-> Vec(0, 0, 0)]

RotationRad(rotation) ==
  Vec(DegToRad(rotation.x), DegToRad(rotation.y), DegToRad(rotation.z))

\* _updateMeshTransform with the degrees written as they are
UpdateMeshTransformNoConvert(mesh, transform) ==
  [mesh EXCEPT !.position = transform.position,
               !.rotation = transform.rotation,
               !.scale = transform.scale]

\* _updateMeshTransform
UpdateMeshTransform(mesh, transform) ==
  [mesh EXCEPT !.position = transform.position,
               !.rotation = RotationRad(transform.rotation),
               !.scale = transform.scale]

\* _updateLightTransform
UpdateLightTransform(light, transform) ==
  [light EXCEPT !.position = transform.position]

\* _updateCameraTransform
UpdateCameraTransform(cam, transform) ==
  [cam EXCEPT !.position = transform.position,
              !.rotation = RotationRad(transform.rotation)]

\* _createMesh without its scene.add
CreateMeshNoSceneAdd(st, i) ==
  LET e == st.entities[i]
      g == st.nextId
      m == st.nextId + 1
      o == st.nextId + 2
      mesh == [geometry |-> g, material |-> m, position |-> Vec(0, 0, 0),
               rotation |-> Vec(0, 0, 0), scale |-> Vec(100, 100, 100),
               castShadow |-> TRUE, receiveShadow |-> TRUE, entityId |-> e.id]
  IN IF CreateGeometryThrows(e.geometry) THEN Thrown(st)
     ELSE Ok([st EXCEPT
            !.geometries = @ @@ (g :> CreateGeometry(e.geometry)),
            !.materials = @ @@ (m :> CreateMaterial(e.material)),
            !.meshes = @ @@ (o :> mesh),
            !.entities[i].mesh.mesh = o,
            !.nextId = @ + 3])

\* _createMesh: geometry, then material, then the mesh, then scene.add
CreateMesh(st, i) ==
  LET e == st.entities[i]
      g == st.nextId
      m == st.nextId + 1
      o == st.nextId + 2
      mesh == [geometry |-> g, material |-> m, position |-> Vec(0, 0, 0),
               rotation |-> Vec(0, 0, 0), scale |-> Vec(100, 100, 100),
               castShadow |-> TRUE, receiveShadow |-> TRUE, entityId |-> e.id]
  IN IF CreateGeometryThrows(e.geometry) THEN Thrown(st)
     ELSE Ok([st EXCEPT
            !.geometries = @ @@ (g :> CreateGeometry(e.geometry)),
            !.materials = @ @@ (m :> CreateMaterial(e.material)),
            !.meshes = @ @@ (o :> mesh),
            !.entities[i].mesh.mesh = o,
            !.scene = Append(@, o),
            !.nextId = @ + 3])

\* _updateMeshMaterial without the dispose of the old material
UpdateMeshMaterialNoDispose(st, i) ==
  LET e == st.entities[i]
      o == e.mesh.mesh
      m == st.nextId
  IN [st EXCEPT
        !.materials = @ @@ (m :> CreateMaterial(e.material)),
        !.meshes[o].material = m,
        !.nextId = @ + 1]

\* _updateMeshMaterial: the new material, dispose the old one, assign
UpdateMeshMaterial(st, i) ==
  LET e == st.entities[i]
      o == e.mesh.mesh
      m == st.nextId
  IN [st EXCEPT
        !.materials = @ @@ (m :> CreateMaterial(e.material)),
        !.disposed = @ \cup {st.meshes[o].material},
        !.meshes[o].material = m,
        !.nextId = @ + 1]

\* _updateMeshGeometry: the new geometry, dispose the old one, assign
UpdateMeshGeometry(st, i) ==
  LET e == st.entities[i]
      o == e.mesh.mesh
      g == st.nextId
  IN IF CreateGeometryThrows(e.geometry) THEN Thrown(st)
     ELSE Ok([st EXCEPT
            !.geometries = @ @@ (g :> CreateGeometry(e.geometry)),
            !.disposed = @ \cup {st.meshes[o].geometry},
            !.meshes[o].geometry = g,
            !.nextId = @ + 1])

\* _updateLightProperties: color.replace is a TypeError unless color is a string
UpdateLightProperties(st, i) ==
  LET c == st.entities[i].light
  IN IF c.light = Null THEN Ok(st)
     ELSE IF ~c.color.isStr THEN Thrown(st)
     ELSE Ok([st EXCEPT
            !.lights[c.light].color = SetHex(ParseInt(ReplaceHash(c.color.s))),
            !.lights[c.light].intensity = c.intensity,
            !.lights[c.light].castShadow = c.castShadow])

\* a catch that throws the error on instead of logging it
Rethrow(st, i) == [st EXCEPT !.thrown = TRUE]

\* console.error in the catch of a _processXxxEntity
LogError(st, i) == [st EXCEPT !.errors = @ \cup {st.entities[i].id}]

\* ------------------------------------------- ThreeRenderSystem: the frame
Eligible(e, comp) == e.active /\ e.transform.has /\ e[comp].has

\* world.entities.filter(...) as the indices kept, in order
RECURSIVE FilterFrom(_, _, _)
FilterFrom(es, comp, i) ==
  IF i > Len(es) THEN <<>>
  ELSE (IF Eligible(es[i], comp) THEN <<i>> ELSE <<>>) \o FilterFrom(es, comp, i + 1)

Filter(es, comp) == FilterFrom(es, comp, 1)

\* _processMeshEntity, the geometry block: rebuild when needsUpdate is set
MeshGeometryStep(st, i) ==
  IF st.entities[i].geometry.has /\ st.entities[i].geometry.needsUpdate
  THEN UpdateMeshGeometry(st, i)
  ELSE Ok(st)

\* geometryComp.needsUpdate = false, or the catch when the rebuild threw
MeshGeometryDone(r, i, wasDirty) ==
  IF r.thrown THEN LogError(r.st, i)
  ELSE IF wasDirty THEN [r.st EXCEPT !.entities[i].geometry.needsUpdate = FALSE]
  ELSE r.st

\* _processMeshEntity, the material block
MeshMaterialStep(st, i) ==
  IF st.entities[i].material.has /\ st.entities[i].material.needsUpdate
  THEN [UpdateMeshMaterial(st, i) EXCEPT !.entities[i].material.needsUpdate = FALSE]
  ELSE st

\* _processMeshEntity, the transform push
MeshTransformStep(st, i) ==
  [st EXCEPT !.meshes[st.entities[i].mesh.mesh] =
               UpdateMeshTransform(@, st.entities[i].transform)]

\* _processMeshEntity, the block under if (meshComp.mesh)
MeshSync(st, i) ==
  IF st.entities[i].mesh.mesh = Null THEN st
  ELSE MeshGeometryDone(
         MeshGeometryStep(MeshMaterialStep(MeshTransformStep(st, i), i), i), i,
         st.entities[i].geometry.has /\ st.entities[i].geometry.needsUpdate)

\* _processMeshEntity, after the creation block: the catch, or the sync
MeshCreated(r, i) == IF r.thrown THEN LogError(r.st, i) ELSE MeshSync(r.st, i)

\* _processMeshEntity
ProcessMeshEntity(st, i) ==
  IF ~st.entities[i].transform.has \/ ~st.entities[i].mesh.has THEN st
  ELSE MeshCreated(IF st.entities[i].mesh.mesh = Null THEN CreateMesh(st, i)
                   ELSE Ok(st), i)

\* _createLight and scene.add
AddLight(st, i, enableShadows) ==
  [st EXCEPT
     !.lights = @ @@ (st.nextId :> CreateLight(st.entities[i].light, enableShadows)),
     !.entities[i].light.light = st.nextId,
     !.scene = Append(@, st.nextId),
     !.nextId = @ + 1]

\* _processLightEntity, the transform push
LightTransformStep(st, i) ==
  [st EXCEPT !.lights[st.entities[i].light.light] =
               UpdateLightTransform(@, st.entities[i].transform)]

\* _processLightEntity, the properties block
LightPropertiesStep(st, i) ==
  IF st.entities[i].light.needsUpdate THEN UpdateLightProperties(st, i) ELSE Ok(st)

\* lightComp.needsUpdate = false, or the catch when the update threw
LightPropertiesDone(r, i, wasDirty) ==
  IF r.thrown THEN LogError(r.st, i)
  ELSE IF wasDirty THEN [r.st EXCEPT !.entities[i].light.needsUpdate = FALSE]
  ELSE r.st

\* _processLightEntity
ProcessLightEntity(st, i, enableShadows) ==
  IF ~st.entities[i].transform.has \/ ~st.entities[i].light.has THEN st
  ELSE LightPropertiesDone(
         LightPropertiesStep(
           LightTransformStep(
             IF st.entities[i].light.light = Null
             THEN AddLight(st, i, enableShadows) ELSE st, i), i), i,
         st.entities[i].light.needsUpdate)

\* _createCamera
AddCamera(st, i) ==
  [st EXCEPT
     !.cameras = @ @@ (st.nextId :> CreateCamera(st.entities[i].camera)),
     !.entities[i].camera.camera = st.nextId,
     !.nextId = @ + 1]

\* _processCameraEntity, the block under if (cameraComp.camera)
CameraSync(st, i) ==
  [st EXCEPT !.cameras[st.entities[i].camera.camera] =
               UpdateCameraTransform(@, st.entities[i].transform),
             !.camera = st.entities[i].camera.camera]

\* _processCameraEntity
ProcessCameraEntity(st, i) ==
  IF ~st.entities[i].transform.has \/ ~st.entities[i].camera.has THEN st
  ELSE CameraSync(IF st.entities[i].camera.camera = Null THEN AddCamera(st, i)
                  ELSE st, i)

\* for (const entity of meshEntities): an exception leaves the loop
RECURSIVE MeshLoop(_, _)
MeshLoop(st, is) ==
  IF is = <<>> \/ st.thrown THEN st
  ELSE MeshLoop(ProcessMeshEntity(st, Head(is)), Tail(is))

RECURSIVE LightLoop(_, _, _)
LightLoop(st, is, enableShadows) ==
  IF is = <<>> \/ st.thrown THEN st
  ELSE LightLoop(ProcessLightEntity(st, Head(is), enableShadows), Tail(is),
                 enableShadows)

\* _processMeshEntities
ProcessMeshEntities(st) == MeshLoop(st, Filter(st.entities, "mesh"))

\* _processLightEntities
ProcessLightEntities(st, enableShadows) ==
  LightLoop(st, Filter(st.entities, "light"), enableShadows)

\* use the first camera entity, when there is one
FirstCamera(st, is) == IF Len(is) > 0 THEN ProcessCameraEntity(st, is[1]) ELSE st

\* _processCameraEntities
ProcessCameraEntities(st) == FirstCamera(st, Filter(st.entities, "camera"))

\* a step of update() that an exception thrown before it skips
LightsUnlessThrown(st, enableShadows) ==
  IF st.thrown THEN st ELSE ProcessLightEntities(st, enableShadows)

CamerasUnlessThrown(st) == IF st.thrown THEN st ELSE ProcessCameraEntities(st)

\* update() with the lights processed before the meshes
FrameLightsFirst(st, enableShadows) ==
  CamerasUnlessThrown(
    ProcessMeshEntities(
      LightsUnlessThrown([st EXCEPT !.errors = {}], enableShadows)))

\* the body of update() up to _render()
Frame(st, enableShadows) ==
  CamerasUnlessThrown(
    LightsUnlessThrown(ProcessMeshEntities([st EXCEPT !.errors = {}]),
                       enableShadows))

\* _cleanup that empties the scene and disposes nothing
CleanupNoDispose(st) == [st EXCEPT !.scene = <<>>]

\* _cleanup: dispose the resources of every mesh of the scene, empty the scene
Cleanup(st) ==
  LET inScene == {st.scene[k] : k \in 1..Len(st.scene)}
      ms == inScene \cap DOMAIN st.meshes
  IN [st EXCEPT
        !.disposed = @ \cup {st.meshes[o].geometry : o \in ms}
                       \cup {st.meshes[o].material : o \in ms},
        !.scene = <<>>]

\* --------------------------------------------------- application inputs
Hex(s) == StrColor(s)
Red6 == Hex(<<"#", "f", "f", "0", "0", "0", "0">>)
Red3 == Hex(<<"#", "f", "0", "0">>)

T0 == TransformComponent(Vec(-50, 0, 25), Vec(0, 30, 0), Vec(100, 150, 100))
T1 == TransformComponent(Vec(100, 200, -300), Vec(90, 180, -45), Vec(200, 200, 50))
TransformSettings == {T0, T1}

MaterialConfigs ==
  {<<>>,
   [materialType |-> "phong", color |-> Red6, roughness |-> 50,
    transparent |-> TRUE, opacity |-> 50]}

GeometrySettings ==
  {<<"box", Params(<<>>)>>,
   <<"sphere", Params([radius |-> 200, widthSegments |-> 0])>>,
   <<"box", NullParams>>}

LightConfigs ==
  {<<>>,
   [color |-> Red3, intensity |-> 50, castShadow |-> TRUE],
   [color |-> NumColor(65280), castShadow |-> TRUE]}

CameraConfigs ==
  {<<>>,
   [cameraType |-> "orthographic", fov |-> 6000, aspect |-> 200, far |-> 50000]}

Entity(transform, mesh, material, geometry, light, cam) ==
  [id |-> 0, active |-> TRUE, transform |-> transform, mesh |-> mesh,
   material |-> material, geometry |-> geometry, light |-> light, camera |-> cam]

\* world.createEntity().addComponent(...)...: the entities the application adds
MeshTemplates ==
  {Entity(T1, ThreeMeshComponent(Null), ThreeMaterialComponent(<<>>),
          ThreeGeometryComponent("sphere", Params([radius |-> 200, widthSegments |-> 0])),
          NoLight, NoCamera),
   Entity(NoTransform, ThreeMeshComponent(Null), ThreeMaterialComponent(<<>>),
          NoGeometry, NoLight, NoCamera)}

LightTemplates ==
  {Entity(T1, NoMesh, NoMaterial, NoGeometry, ThreeLightComponent(<<>>), NoCamera)}

CameraTemplates ==
  {Entity(T1, NoMesh, NoMaterial, NoGeometry, NoLight, ThreeCameraComponent(<<>>))}

Templates == MeshTemplates \cup LightTemplates \cup CameraTemplates

\* ------------------------------------------------------- MaterialFactory
\* a texture option: the url when it is a non-empty string, else undefined
MapOf(config, k) == OrStr(config, k, Undefined)

\* config.emissive ? new THREE.Color(config.emissive) : new THREE.Color(0x000000)
EmissiveOf(config) ==
  IF Has(config, "emissive") /\ ColorTruthy(config["emissive"])
  THEN ThreeColor(config["emissive"]) ELSE 0

\* new THREE.Color(config.color); new THREE.Color(undefined) is white
BaseColor(config) == IF Has(config, "color") THEN ThreeColor(config["color"]) ELSE White

\* baseProps, with map when config.texture is given
BaseProps(config) ==
  [color |-> BaseColor(config),
   transparent |-> OrBool(config, "transparent", FALSE),
   opacity |-> IF Has(config, "opacity") THEN config["opacity"] ELSE 100,
   wireframe |-> OrBool(config, "wireframe", FALSE),
   side |-> IF OrBool(config, "doubleSided", FALSE) THEN "DoubleSide" ELSE "FrontSide",
   map |-> MapOf(config, "texture")]

\* MaterialFactory.createMaterial
MaterialFactoryCreateMaterial(config) ==
  LET t == IF Has(config, "type") THEN config["type"] ELSE Undefined
      emissive == [emissive |-> EmissiveOf(config),
                   emissiveIntensity |-> OrNum(config, "emissiveIntensity", 0)]
      pbr == [metalness |-> OrNum(config, "metalness", 0),
              roughness |-> OrNum(config, "roughness", 100)]
  IN CASE t = "standard" ->
            [class |-> "MeshStandardMaterial",
             normalMap |-> MapOf(config, "normalMap"),
             roughnessMap |-> MapOf(config, "roughnessMap"),
             metalnessMap |-> MapOf(config, "metalnessMap"),
             envMapIntensity |-> OrNum(config, "envMapIntensity", 100)]
              @@ pbr @@ emissive @@ BaseProps(config)
       [] t = "phong" ->
            [class |-> "MeshPhongMaterial",
             shininess |-> OrNum(config, "shininess",
                                 Shininess(OrNum(config, "roughness", 100))),
             specular |-> IF Has(config, "specular") /\ ColorTruthy(config["specular"])
                          THEN ThreeColor(config["specular"]) ELSE 1118481]
              @@ emissive @@ BaseProps(config)
       [] t = "lambert" ->
            [class |-> "MeshLambertMaterial"] @@ emissive @@ BaseProps(config)
       [] t = "basic" -> [class |-> "MeshBasicMaterial"] @@ BaseProps(config)
       [] t = "physical" ->
            [class |-> "MeshPhysicalMaterial",
             clearcoat |-> OrNum(config, "clearcoat", 0),
             clearcoatRoughness |-> OrNum(config, "clearcoatRoughness", 0),
             transmission |-> OrNum(config, "transmission", 0),
             thickness |-> OrNum(config, "thickness", 0),
             ior |-> OrNum(config, "ior", 150)]
              @@ pbr @@ emissive @@ BaseProps(config)
       [] t = "toon" ->
            [class |-> "MeshToonMaterial",
             gradientMap |-> MapOf(config, "gradientMap")] @@ BaseProps(config)
       [] t = "matcap" ->
            [class |-> "MeshMatcapMaterial",
             matcap |-> MapOf(config, "matcap")] @@ BaseProps(config)
       [] t = "wireframe" ->
            [class |-> "MeshBasicMaterial"]
              @@ [BaseProps(config) EXCEPT !.wireframe = TRUE]
       [] OTHER -> [class |-> "MeshStandardMaterial"] @@ BaseProps(config)

\* MaterialPresets (numbers in hundredths)
MaterialPresets ==
  "Default" :>
    [type |-> "standard", color |-> Hex(<<"#", "4", "C", "A", "F", "5", "0">>), metalness |-> 20, roughness |-> 80] @@
  "White" :>
    [type |-> "standard", color |-> Hex(<<"#", "F", "F", "F", "F", "F", "F">>), metalness |-> 10, roughness |-> 90] @@
  "Black" :>
    [type |-> "standard", color |-> Hex(<<"#", "0", "0", "0", "0", "0", "0">>), metalness |-> 10, roughness |-> 90] @@
  "Steel" :>
    [type |-> "standard", color |-> Hex(<<"#", "B", "0", "B", "0", "B", "0">>), metalness |-> 90, roughness |-> 10] @@
  "Gold" :>
    [type |-> "standard", color |-> Hex(<<"#", "F", "F", "D", "7", "0", "0">>), metalness |-> 100, roughness |-> 20] @@
  "Copper" :>
    [type |-> "standard", color |-> Hex(<<"#", "B", "8", "7", "3", "3", "3">>), metalness |-> 100, roughness |-> 30] @@
  "RedPlastic" :>
    [type |-> "standard", color |-> Hex(<<"#", "F", "4", "4", "3", "3", "6">>), metalness |-> 0, roughness |-> 90] @@
  "BluePlastic" :>
    [type |-> "standard", color |-> Hex(<<"#", "2", "1", "9", "6", "F", "3">>), metalness |-> 0, roughness |-> 80] @@
  "GreenPlastic" :>
    [type |-> "standard", color |-> Hex(<<"#", "4", "C", "A", "F", "5", "0">>), metalness |-> 0, roughness |-> 90] @@
  "Glass" :>
    [type |-> "physical", color |-> Hex(<<"#", "F", "F", "F", "F", "F", "F">>), metalness |-> 0, roughness |-> 0, transparent |-> TRUE, opacity |-> 10, transmission |-> 90, thickness |-> 50, ior |-> 150] @@
  "TintedGlass" :>
    [type |-> "physical", color |-> Hex(<<"#", "4", "0", "8", "0", "F", "F">>), metalness |-> 0, roughness |-> 0, transparent |-> TRUE, opacity |-> 30, transmission |-> 70, thickness |-> 50, ior |-> 150] @@
  "Neon" :>
    [type |-> "standard", color |-> Hex(<<"#", "0", "0", "0", "0", "0", "0">>), emissive |-> Hex(<<"#", "0", "0", "F", "F", "0", "0">>), emissiveIntensity |-> 100, metalness |-> 0, roughness |-> 100] @@
  "Fire" :>
    [type |-> "standard", color |-> Hex(<<"#", "0", "0", "0", "0", "0", "0">>), emissive |-> Hex(<<"#", "F", "F", "4", "5", "0", "0">>), emissiveIntensity |-> 80, metalness |-> 0, roughness |-> 100] @@
  "Wireframe" :>
    [type |-> "wireframe", color |-> Hex(<<"#", "0", "0", "F", "F", "0", "0">>), wireframe |-> TRUE] @@
  "Invisible" :>
    [type |-> "basic", color |-> Hex(<<"#", "F", "F", "F", "F", "F", "F">>), transparent |-> TRUE, opacity |-> 0] @@
  "ToonRed" :>
    [type |-> "toon", color |-> Hex(<<"#", "F", "F", "6", "B", "6", "B">>)] @@
  "ToonBlue" :>
    [type |-> "toon", color |-> Hex(<<"#", "4", "E", "C", "D", "C", "4">>)] @@
  "ToonYellow" :>
    [type |-> "toon", color |-> Hex(<<"#", "F", "F", "E", "0", "6", "6">>)]

\* ------------------------------------------- constructor and factory inputs
\* the field k absent, or present with one of vals
Opt(k, vals) == {<<>>} \cup {(k :> v) : v \in vals}

WhiteHex == Hex(<<"#", "F", "F", "F", "F", "F", "F">>)

\* Partial<ThreeMaterialComponent> values, every number within its range
MaterialCtorConfigs ==
  {a @@ b @@ c @@ d :
     a \in Opt("roughness", {0, 50}), b \in Opt("opacity", {0, 50}),
     c \in Opt("transparent", BOOLEAN), d \in Opt("metalness", {0, 100})}

LightCtorConfigs ==
  {a @@ b @@ c :
     a \in Opt("intensity", {0, 50}), b \in Opt("castShadow", BOOLEAN),
     c \in Opt("lightType", {"point"})}

CameraCtorConfigs ==
  {a @@ b @@ c @@ d :
     a \in Opt("fov", {6000}), b \in Opt("aspect", {200}),
     c \in Opt("far", {50000}), d \in Opt("cameraType", {"orthographic"})}

MaterialTypes ==
  {"standard", "phong", "lambert", "basic", "physical", "toon", "matcap", "wireframe"}

\* MaterialConfig values: the presets, and a type with roughness and opacity
FactoryConfigs ==
  {MaterialPresets[n] : n \in DOMAIN MaterialPresets}
    \cup {[type |-> t, color |-> WhiteHex] @@ a @@ b :
            t \in MaterialTypes \cup {"glow"},
            a \in Opt("roughness", {0, 50}), b \in Opt("opacity", {0, 50})}

Inputs ==
  [kind : {"material"}, c : MaterialCtorConfigs]
    \cup [kind : {"light"}, c : LightCtorConfigs]
    \cup [kind : {"camera"}, c : CameraCtorConfigs]
    \cup [kind : {"factory"}, c : FactoryConfigs]

\* ------------------------------------------------------- GeometryFactory
\* A GeometryConfig is the sequence of its properties in insertion order; a
\* property holds a string, a number, or undefined.
StrProp(k, v) == [name |-> k, kind |-> "str", s |-> v, n |-> 0]
NumProp(k, v) == [name |-> k, kind |-> "num", s |-> "", n |-> v]
UndefProp(k) == [name |-> k, kind |-> "undef", s |-> "", n |-> 0]

Digits == <<"0", "1", "2", "3", "4", "5", "6", "7", "8", "9">>

\* the decimal digits of a non-negative number
RECURSIVE ToDigits(_)
ToDigits(n) ==
  IF n < 10 THEN <<Digits[n + 1]>>
  ELSE Append(ToDigits(n \div 10), Digits[(n % 10) + 1])

\* JSON.stringify(config): name and value of every property in order, a
\* property whose value is undefined left out
RECURSIVE JsonStringify(_)
JsonStringify(config) ==
  IF config = <<>> THEN <<>>
  ELSE (CASE Head(config).kind = "undef" -> <<>>
          [] Head(config).kind = "str" -> <<Head(config).name, ":", Head(config).s, ",">>
          [] OTHER -> <<Head(config).name, ":">> \o ToDigits(Head(config).n) \o <<",">>)
       \o JsonStringify(Tail(config))

\* getCacheKey
GetCacheKey(config) == JsonStringify(config)

HasProp(config, k) == \E i \in 1..Len(config) : config[i].name = k

PropOf(config, k) == config[CHOOSE i \in 1..Len(config) : config[i].name = k]

\* config.type
TypeOf(config) ==
  IF HasProp(config, "type") /\ PropOf(config, "type").kind = "str"
  THEN PropOf(config, "type").s ELSE Undefined

\* config.k || d for a number
Num(config, k, d) ==
  IF HasProp(config, k) /\ PropOf(config, k).kind = "num" /\ PropOf(config, k).n # 0
  THEN PropOf(config, k).n ELSE d

\* Math.PI * 2 in millionths
TwoPiMicro == 6283185

\* the switch of createGeometry: the geometry constructed for a config
\* (lengths in hundredths, angles in millionths, segment counts as they are;
\* openEnded, points and shape are not among the inputs: lathe takes its
\* default points, extrude its fallback box)
NewGeometry(config) ==
  LET t == TypeOf(config)
      Box1 == [class |-> "BoxGeometry", args |-> <<100, 100, 100>>]
  IN CASE t = "box" ->
            [class |-> "BoxGeometry",
             args |-> <<Num(config, "width", 100), Num(config, "height", 100),
                        Num(config, "depth", 100), Num(config, "widthSegments", 1),
                        Num(config, "heightSegments", 1),
                        Num(config, "depthSegments", 1)>>]
       [] t = "sphere" ->
            [class |-> "SphereGeometry",
             args |-> <<Num(config, "radius", 50), Num(config, "widthSegments", 16),
                        Num(config, "heightSegments", 12), Num(config, "phiStart", 0),
                        Num(config, "phiLength", TwoPiMicro),
                        Num(config, "thetaStart", 0),
                        Num(config, "thetaLength", PiMicro)>>]
       [] t = "plane" ->
            [class |-> "PlaneGeometry",
             args |-> <<Num(config, "width", 100), Num(config, "height", 100),
                        Num(config, "widthSegments", 1),
                        Num(config, "heightSegments", 1)>>]
       [] t = "cylinder" ->
            [class |-> "CylinderGeometry",
             args |-> <<Num(config, "radiusTop", 50), Num(config, "radiusBottom", 50),
                        Num(config, "height", 100), Num(config, "radialSegments", 8),
                        Num(config, "heightSegments", 1), 0,
                        Num(config, "thetaStart", 0),
                        Num(config, "thetaLength", TwoPiMicro)>>]
       [] t = "cone" ->
            [class |-> "ConeGeometry",
             args |-> <<Num(config, "radius", 50), Num(config, "height", 100),
                        Num(config, "radialSegments", 8),
                        Num(config, "heightSegments", 1), 0,
                        Num(config, "thetaStart", 0),
                        Num(config, "thetaLength", TwoPiMicro)>>]
       [] t = "torus" ->
            [class |-> "TorusGeometry",
             args |-> <<Num(config, "radius", 40), Num(config, "tube", 20),
                        Num(config, "radialSegments", 8),
                        Num(config, "tubularSegments", 6),
                        Num(config, "arc", TwoPiMicro)>>]
       [] t = "torusKnot" ->
            [class |-> "TorusKnotGeometry",
             args |-> <<Num(config, "radius", 40), Num(config, "tube", 10),
                        Num(config, "tubularSegments", 64),
                        Num(config, "radialSegments", 8), Num(config, "p", 2),
                        Num(config, "q", 3)>>]
       [] t = "dodecahedron" ->
            [class |-> "DodecahedronGeometry",
             args |-> <<Num(config, "radius", 50), Num(config, "detail", 0)>>]
       [] t = "icosahedron" ->
            [class |-> "IcosahedronGeometry",
             args |-> <<Num(config, "radius", 50), Num(config, "detail", 0)>>]
       [] t = "octahedron" ->
            [class |-> "OctahedronGeometry",
             args |-> <<Num(config, "radius", 50), Num(config, "detail", 0)>>]
       [] t = "tetrahedron" ->
            [class |-> "TetrahedronGeometry",
             args |-> <<Num(config, "radius", 50), Num(config, "detail", 0)>>]
       [] t = "capsule" ->
            [class |-> "CapsuleGeometry",
             args |-> <<Num(config, "radius", 30), Num(config, "length", 80),
                        Num(config, "capSegments", 4),
                        Num(config, "radialSegments", 8)>>]
       [] t = "ring" ->
            [class |-> "RingGeometry",
             args |-> <<Num(config, "innerRadius", 20), Num(config, "outerRadius", 50),
                        Num(config, "thetaSegments", 8), Num(config, "phiSegments", 1),
                        Num(config, "thetaStart", 0),
                        Num(config, "thetaLength", TwoPiMicro)>>]
       [] t = "lathe" ->
            [class |-> "LatheGeometry",
             args |-> <<Num(config, "segments", 12), Num(config, "phiStart", 0),
                        Num(config, "phiLength", TwoPiMicro)>>]
       [] t = "extrude" -> Box1
       [] OTHER -> Box1

\* a new geometry object, made by a constructor or by clone(): not disposed
GeometryObject(geometry, by) ==
  [geometry |-> geometry, by |-> by, disposed |-> FALSE]

\* BufferGeometry.clone(): a new object with the same data, never disposed
Clone(objects, id) ==
  Append(objects, GeometryObject(objects[id].geometry, "clone"))

\* the cache hit of createGeometry that hands out the cached object itself
CacheHitNoClone(f, key) == [f EXCEPT !.result = f.cache[key]]

\* createGeometry, the cache hit: return geometryCache.get(cacheKey).clone()
CacheHit(f, key) ==
  [f EXCEPT !.objects = Clone(@, f.cache[key]),
            !.result = Len(f.objects) + 1]

\* createGeometry, the miss: construct, cache a clone, return the geometry
CacheMiss(f, config, key) ==
  [f EXCEPT !.objects = Clone(Append(@, GeometryObject(NewGeometry(config), "constructor")),
                              Len(f.objects) + 1),
            !.cache = @ @@ (key :> Len(f.objects) + 2),
            !.result = Len(f.objects) + 1]

\* GeometryFactory.createGeometry
FactoryCreateGeometry(f, config) ==
  IF GetCacheKey(config) \in DOMAIN f.cache
  THEN CacheHit(f, GetCacheKey(config))
  ELSE CacheMiss(f, config, GetCacheKey(config))

\* the objects the cache holds
Cached(cache) == {cache[key] : key \in DOMAIN cache}

\* GeometryFactory.clearCache
FactoryClearCache(f) ==
  [f EXCEPT !.objects = [i \in DOMAIN @ |->
                           IF i \in Cached(f.cache)
                           THEN [@[i] EXCEPT !.disposed = TRUE] ELSE @[i]],
            !.cache = <<>>]

\* GeometryConfig values: the same box with and without an undefined width,
\* property order swapped, a falsy radius
GeometryConfigs ==
  {<<StrProp("type", "box")>>,
   <<StrProp("type", "box"), UndefProp("width")>>,
   <<StrProp("type", "box"), NumProp("width", 200)>>,
   <<NumProp("width", 200), StrProp("type", "box")>>,
   <<StrProp("type", "sphere"), NumProp("radius", 0)>>,
   <<StrProp("type", "ring"), NumProp("thetaSegments", 12)>>}

\* ------------------------------------------ preset and category tables
\* MaterialUtils.getMaterialsByCategory with Glass listed a second time
MaterialCategoriesGlassTwice ==
  "Basic" :> <<"Default", "White", "Black">> @@
  "Metal" :> <<"Steel", "Gold", "Copper">> @@
  "Plastic" :> <<"RedPlastic", "BluePlastic", "GreenPlastic">> @@
  "Glass" :> <<"Glass", "TintedGlass">> @@
  "Emissive" :> <<"Neon", "Fire", "Glass">> @@
  "Special" :> <<"Wireframe", "Invisible">> @@
  "Toon" :> <<"ToonRed", "ToonBlue", "ToonYellow">>

\* MaterialUtils.getMaterialsByCategory
MaterialCategories ==
  "Basic" :> <<"Default", "White", "Black">> @@
  "Metal" :> <<"Steel", "Gold", "Copper">> @@
  "Plastic" :> <<"RedPlastic", "BluePlastic", "GreenPlastic">> @@
  "Glass" :> <<"Glass", "TintedGlass">> @@
  "Emissive" :> <<"Neon", "Fire">> @@
  "Special" :> <<"Wireframe", "Invisible">> @@
  "Toon" :> <<"ToonRed", "ToonBlue", "ToonYellow">>

\* GeometryUtils.getGeometryCategories
GeometryCategories ==
  "Basic" :> <<"Cube", "Sphere", "Plane", "Cylinder", "Cone">> @@
  "Advanced" :> <<"Torus", "TorusKnot", "Capsule">> @@
  "Polyhedra" :> <<"Dodecahedron", "Icosahedron", "Octahedron", "Tetrahedron">> @@
  "Special" :> <<"Ring", "Wheel", "Disk">>

\* LightUtils.getLightingCategories
LightingCategories ==
  "Basic" :> <<"DefaultAmbient", "DefaultDirectional">> @@
  "Studio" :> <<"StudioKeyLight", "StudioFillLight", "StudioBackLight">> @@
  "Natural" :> <<"Sunlight", "Moonlight", "SkyAmbient">> @@
  "Colored" :> <<"WarmSpot", "CoolPoint">> @@
  "Atmospheric" :> <<"FireGlow", "NeonBlue", "NeonPink">>

\* CameraUtils.getCameraCategories
CameraCategories ==
  "Basic" :> <<"DefaultPerspective", "DefaultOrthographic">> @@
  "Perspective" :> <<"WideFOV", "NarrowFOV", "TelephotoLens", "WideAngleLens">> @@
  "Orthographic" :> <<"TopDown", "SideView", "FrontView">> @@
  "Cinematic" :> <<"CinematicWide", "CinematicStandard", "Portrait">> @@
  "Game" :> <<"ThirdPerson", "FirstPerson", "IsometricGame">> @@
  "Architectural" :> <<"ArchViz", "Interior">>

\* Object.keys(GeometryPresets)
GeometryPresetKeys ==
  {"Cube", "Sphere", "Plane", "Cylinder", "Cone", "Torus", "TorusKnot",
   "Capsule", "Dodecahedron", "Icosahedron", "Octahedron", "Tetrahedron",
   "Ring", "Wheel", "Disk"}

\* Object.keys(LightPresets)
LightPresetKeys ==
  {"DefaultAmbient", "DefaultDirectional", "StudioKeyLight",
   "StudioFillLight", "StudioBackLight", "Sunlight", "Moonlight",
   "SkyAmbient", "WarmSpot", "CoolPoint", "FireGlow", "NeonBlue",
   "NeonPink"}

\* Object.keys(CameraPresets)
CameraPresetKeys ==
  {"DefaultPerspective", "DefaultOrthographic", "WideFOV", "NarrowFOV",
   "TelephotoLens", "WideAngleLens", "TopDown", "SideView", "FrontView",
   "CinematicWide", "CinematicStandard", "Portrait", "ThirdPerson",
   "FirstPerson", "IsometricGame", "ArchViz", "Interior"}

PresetTables == {"material", "geometry", "light", "camera"}

\* the category table of a module
CategoriesOf(table) ==
  CASE table = "material" -> MaterialCategories
    [] table = "geometry" -> GeometryCategories
    [] table = "light" -> LightingCategories
    [] table = "camera" -> CameraCategories

\* the keys of the preset table of a module
PresetKeysOf(table) ==
  CASE table = "material" -> DOMAIN MaterialPresets
    [] table = "geometry" -> GeometryPresetKeys
    [] table = "light" -> LightPresetKeys
    [] table = "camera" -> CameraPresetKeys

\* every place of a category table: category and index in its list
Places(categories) ==
  UNION {{<<c, k>> : k \in 1..Len(categories[c])} : c \in DOMAIN categories}

\* the places where a category table lists the name
Occurrences(categories, name) ==
  {p \in Places(categories) : categories[p[1]][p[2]] = name}

\* the names a lookup is made with: every preset key, every listed name, and
\* a name that is in no table
Names ==
  UNION {PresetKeysOf(t) : t \in PresetTables}
    \cup UNION {{CategoriesOf(t)[p[1]][p[2]] : p \in Places(CategoriesOf(t))} :
                 t \in PresetTables}
    \cup {"Chrome"}

Lookups == [kind : {"category"}, c : [table : PresetTables, name : Names]]

\* ------------------------------------------------------------- actions
sysVars ==
  <<entities, world, isInitialized, frameCount, options, camera, scene, meshes,
    geometries, materials, lights, cameras, disposed, rendererDisposed, nextId,
    errors, lastRender, threw, calls, disturbed>>

VARIABLES
  config,           \* the input of a constructor or of MaterialFactory.createMaterial
  built,            \* what the call made from it
  geometryCache,    \* GeometryFactory.geometryCache: serialization -> geometry
  geoObjects,       \* the geometries GeometryFactory made, by id
  returned,         \* the createGeometry calls so far: config and result
  seen,             \* serializations passed in since the last clearCache()
  geoCalls,         \* number of GeometryFactory and dispose calls
  lastGeoOp,        \* the last of them
  pluginConfig,     \* ThreeRenderPlugin: getConfig()
  renderSystem,     \* ThreeRenderPlugin._renderSystem: a system id or Null
  systemId,         \* id of the render system constructed last (0: none yet)
  worldSystems,     \* the systems registered with the world
  reported,         \* number of this.error(...) reports of the plugin
  canvas,           \* renderer.domElement of the render system
  bridge,           \* the ThreeEditorBridge, once constructed
  defaults,         \* indices of the light and camera entities of each default set
  meshRenderers,    \* MeshRendererComponent of the entities that have one, by index
  appOp,            \* the last plugin, bridge or converter call and whether it threw
  appCalls          \* number of such calls

ctorVars == <<config, built>>
geoVars == <<geometryCache, geoObjects, returned, seen, geoCalls, lastGeoOp>>

appVars ==
  <<pluginConfig, renderSystem, systemId, worldSystems, reported, canvas, bridge,
    defaults, meshRenderers, appOp, appCalls>>

vars == <<sysVars, ctorVars, geoVars, appVars>>

\* what no method of the render system writes
fixed == <<options, ctorVars, geoVars, appVars>>

\* no constructor or factory call is under way
IdleConfig ==
  /\ config = [kind |-> "none", c |-> <<>>]
  /\ built = [made |-> FALSE]

\* GeometryFactory as loaded: an empty cache
IdleGeo ==
  /\ geometryCache = <<>>
  /\ geoObjects = <<>>
  /\ returned = <<>>
  /\ seen = {}
  /\ geoCalls = 0
  /\ lastGeoOp = "none"

\* DEFAULT_OPTIONS
DefaultOptions ==
  [canvas |-> Undefined, enableShadows |-> TRUE, shadowMapSize |-> 2048,
   backgroundColor |-> NumColor(1710618), antialias |-> TRUE]

\* the constructor's { ...DEFAULT_OPTIONS, ...options }
MergeOptions(opts) == opts @@ DefaultOptions

\* the ThreeRenderPlugin defaults its constructor merges the config over
PluginDefaults ==
  [enableShadows |-> TRUE, enableAntialiasing |-> TRUE,
   backgroundColor |-> StrColor(<<"#", "2", "c", "2", "c", "2", "c">>),
   createDefaultEntities |-> TRUE, debug |-> FALSE]

\* new ThreeRenderPlugin(config): setConfig({ ...defaults, ...config })
PluginConstructor(c) == c @@ PluginDefaults

\* no plugin call, bridge or conversion yet; the plugin holds the configuration
\* c merged over its defaults
IdleApp(c) ==
  /\ pluginConfig = PluginConstructor(c)
  /\ renderSystem = Null
  /\ systemId = 0
  /\ worldSystems = {}
  /\ reported = 0
  /\ canvas = Undefined
  /\ bridge = [made |-> FALSE]
  /\ defaults = <<>>
  /\ meshRenderers = <<>>
  /\ appOp = [op |-> "none", threw |-> FALSE]
  /\ appCalls = 0

\* write the renderer side back
Install(st) ==
  /\ entities' = st.entities
  /\ camera' = st.camera
  /\ scene' = st.scene
  /\ meshes' = st.meshes
  /\ geometries' = st.geometries
  /\ materials' = st.materials
  /\ lights' = st.lights
  /\ cameras' = st.cameras
  /\ disposed' = st.disposed
  /\ nextId' = st.nextId
  /\ errors' = st.errors

three == <<camera, scene, meshes, geometries, materials, lights, cameras, disposed,
           nextId, errors>>

\* new ThreeRenderSystem(): empty scene, default camera (object 1)
InitSys ==
  /\ entities = <<>>
  /\ world = FALSE
  /\ isInitialized = FALSE
  /\ frameCount = 0
  /\ options = MergeOptions(<<>>)
  /\ camera = 1
  /\ scene = <<>>
  /\ meshes = <<>>
  /\ geometries = <<>>
  /\ materials = <<>>
  /\ lights = <<>>
  /\ cameras = (1 :> DefaultCamera)
  /\ disposed = {}
  /\ rendererDisposed = FALSE
  /\ nextId = 2
  /\ errors = {}
  /\ lastRender = [frame |-> 0, camera |-> Null, scene |-> <<>>]
  /\ threw = FALSE
  /\ calls = 0
  /\ disturbed = FALSE

Init == InitSys /\ IdleConfig /\ IdleGeo /\ IdleApp(<<>>)

\* onAddedToWorld
OnAddedToWorld ==
  /\ ~world
  /\ world' = TRUE
  /\ isInitialized' = TRUE
  /\ UNCHANGED <<entities, frameCount, fixed, three, rendererDisposed,
                 lastRender, threw, calls, disturbed>>

\* onRemovedFromWorld
OnRemovedFromWorld ==
  /\ world
  /\ calls < MaxCalls
  /\ calls' = calls + 1
  /\ \E st \in {Cleanup(St)} : Install(st)
  /\ rendererDisposed' = TRUE
  /\ isInitialized' = FALSE
  /\ world' = FALSE
  /\ disturbed' = TRUE
  /\ UNCHANGED <<frameCount, fixed, lastRender, threw>>

\* dispose
Dispose ==
  /\ calls < MaxCalls
  /\ calls' = calls + 1
  /\ \E st \in {Cleanup(St)} : Install(st)
  /\ rendererDisposed' = TRUE
  /\ disturbed' = TRUE
  /\ UNCHANGED <<world, isInitialized, frameCount, fixed, lastRender, threw>>

\* update: the early return, or one frame and the render
Update ==
  /\ frameCount < MaxFrames
  /\ IF ~isInitialized \/ ~world
     THEN UNCHANGED <<entities, world, isInitialized, frameCount, fixed, three,
                      rendererDisposed, lastRender, threw, calls, disturbed>>
     ELSE \E st \in {Frame(St, options.enableShadows)} :
             /\ frameCount' = frameCount + 1
             /\ Install(st)
             /\ threw' = st.thrown
             /\ lastRender' = IF st.thrown THEN lastRender
                              ELSE [frame |-> frameCount + 1, camera |-> st.camera,
                                    scene |-> st.scene]
             /\ UNCHANGED <<world, isInitialized, fixed, rendererDisposed, calls,
                            disturbed>>

\* world.createEntity() and its addComponent calls
AddEntity ==
  /\ calls < MaxCalls
  /\ calls' = calls + 1
  /\ \E t \in Templates :
       entities' = Append(entities, [t EXCEPT !.id = Len(entities) + 1])
  /\ UNCHANGED <<world, isInitialized, frameCount, fixed, three,
                 rendererDisposed, lastRender, threw, disturbed>>

\* an entity whose ThreeMeshComponent is constructed with a mesh the
\* application made: new ThreeMeshComponent(new THREE.Mesh(geometry, material))
AddEntityWithMesh ==
  /\ calls < MaxCalls
  /\ calls' = calls + 1
  /\ LET g == nextId
         m == nextId + 1
         o == nextId + 2
         mesh == [geometry |-> g, material |-> m, position |-> Vec(0, 0, 0),
                  rotation |-> Vec(0, 0, 0), scale |-> Vec(100, 100, 100),
                  castShadow |-> FALSE, receiveShadow |-> FALSE, entityId |-> 0]
     IN /\ geometries' = geometries @@ (g :> CreateGeometry(NoGeometry))
        /\ materials' = materials @@ (m :> CreateMaterial(NoMaterial))
        /\ meshes' = meshes @@ (o :> mesh)
        /\ nextId' = nextId + 3
        /\ entities' = Append(entities,
             [Entity(T1, ThreeMeshComponent(o), NoMaterial, NoGeometry, NoLight,
                     NoCamera) EXCEPT !.id = Len(entities) + 1])
  /\ UNCHANGED <<world, isInitialized, frameCount, fixed, camera, scene, lights,
                 cameras, disposed, errors, rendererDisposed, lastRender, threw,
                 disturbed>>

\* an application call that changes component data of entity i
Edit(i, e) ==
  /\ calls < MaxCalls
  /\ e # entities[i]
  /\ entities' = [entities EXCEPT ![i] = e]
  /\ calls' = calls + 1
  /\ UNCHANGED <<world, isInitialized, frameCount, fixed, three,
                 rendererDisposed, lastRender, threw, disturbed>>

\* entity.active = b
SetActive ==
  \E i \in 1..Len(entities) :
    Edit(i, [entities[i] EXCEPT !.active = ~@])

\* the application writes the transform
SetTransform ==
  \E i \in 1..Len(entities), t \in TransformSettings :
    /\ entities[i].transform.has
    /\ Edit(i, [entities[i] EXCEPT !.transform = t])

\* the application writes material fields, with or without needsUpdate = true
EditMaterial ==
  \E i \in 1..Len(entities), cfg \in MaterialConfigs, dirty \in BOOLEAN :
    /\ entities[i].material.has
    /\ Edit(i, [entities[i] EXCEPT !.material =
                  [ThreeMaterialComponent(cfg) EXCEPT
                     !.needsUpdate = entities[i].material.needsUpdate \/ dirty]])

\* the application writes geometry fields, with or without needsUpdate = true
EditGeometry ==
  \E i \in 1..Len(entities), g \in GeometrySettings, dirty \in BOOLEAN :
    /\ entities[i].geometry.has
    /\ Edit(i, [entities[i] EXCEPT !.geometry =
                  [ThreeGeometryComponent(g[1], g[2]) EXCEPT
                     !.needsUpdate = entities[i].geometry.needsUpdate \/ dirty]])

\* the application writes light fields, with or without needsUpdate = true
EditLight ==
  \E i \in 1..Len(entities), cfg \in LightConfigs, dirty \in BOOLEAN :
    /\ entities[i].light.has
    /\ Edit(i, [entities[i] EXCEPT !.light =
                  [ThreeLightComponent(cfg) EXCEPT
                     !.light = entities[i].light.light,
                     !.needsUpdate = entities[i].light.needsUpdate \/ dirty]])

\* the application writes camera fields, with or without needsUpdate = true
EditCamera ==
  \E i \in 1..Len(entities), cfg \in CameraConfigs, dirty \in BOOLEAN :
    /\ entities[i].camera.has
    /\ Edit(i, [entities[i] EXCEPT !.camera =
                  [ThreeCameraComponent(cfg) EXCEPT
                     !.camera = entities[i].camera.camera,
                     !.needsUpdate = entities[i].camera.needsUpdate \/ dirty]])

\* ThreeMeshComponent.dispose
MeshComponentDispose ==
  \E i \in 1..Len(entities) :
    LET o == entities[i].mesh.mesh
    IN /\ entities[i].mesh.has
       /\ o # Null
       /\ calls < MaxCalls
       /\ disposed' = disposed \cup {meshes[o].geometry, meshes[o].material}
       /\ entities' = [entities EXCEPT ![i].mesh.mesh = Null]
       /\ calls' = calls + 1
       /\ disturbed' = TRUE
       /\ UNCHANGED <<world, isInitialized, frameCount, fixed, camera, scene,
                      meshes, geometries, materials, lights, cameras, nextId,
                      errors, rendererDisposed, lastRender, threw>>

Next ==
  \/ OnAddedToWorld
  \/ OnRemovedFromWorld
  \/ Dispose
  \/ Update
  \/ AddEntity
  \/ AddEntityWithMesh
  \/ SetActive
  \/ SetTransform
  \/ EditMaterial
  \/ EditGeometry
  \/ EditLight
  \/ EditCamera
  \/ MeshComponentDispose

Spec == Init /\ [][Next]_vars

\* ----------------------------------- constructors and MaterialFactory calls
InitConfig ==
  /\ InitSys
  /\ IdleGeo
  /\ IdleApp(<<>>)
  /\ config \in Inputs
  /\ built = [made |-> FALSE]

\* new ThreeMaterialComponent(config)
ConstructMaterial ==
  /\ config.kind = "material"
  /\ ~built.made
  /\ built' = [made |-> TRUE, obj |-> ThreeMaterialComponent(config.c)]
  /\ UNCHANGED <<sysVars, config, geoVars, appVars>>

\* new ThreeLightComponent(config)
ConstructLight ==
  /\ config.kind = "light"
  /\ ~built.made
  /\ built' = [made |-> TRUE, obj |-> ThreeLightComponent(config.c)]
  /\ UNCHANGED <<sysVars, config, geoVars, appVars>>

\* new ThreeCameraComponent(config)
ConstructCamera ==
  /\ config.kind = "camera"
  /\ ~built.made
  /\ built' = [made |-> TRUE, obj |-> ThreeCameraComponent(config.c)]
  /\ UNCHANGED <<sysVars, config, geoVars, appVars>>

\* MaterialFactory.createMaterial(config)
FactoryCreateMaterial ==
  /\ config.kind = "factory"
  /\ ~built.made
  /\ built' = [made |-> TRUE, obj |-> MaterialFactoryCreateMaterial(config.c)]
  /\ UNCHANGED <<sysVars, config, geoVars, appVars>>

NextConfig ==
  \/ ConstructMaterial
  \/ ConstructLight
  \/ ConstructCamera
  \/ FactoryCreateMaterial

SpecConfig == InitConfig /\ [][NextConfig]_vars

\* ------------------------------------------ lookups in the category tables
InitTables ==
  /\ InitSys
  /\ IdleGeo
  /\ IdleApp(<<>>)
  /\ config \in Lookups
  /\ built = [made |-> FALSE]

\* XxxUtils.getXxxCategories() searched for a name, Object.keys(XxxPresets)
\* asked for it
LookupCategory ==
  /\ config.kind = "category"
  /\ ~built.made
  /\ built' = [made |-> TRUE,
               obj |-> [places |-> Occurrences(CategoriesOf(config.c.table),
                                               config.c.name),
                        preset |-> config.c.name \in PresetKeysOf(config.c.table)]]
  /\ UNCHANGED <<sysVars, config, geoVars, appVars>>

NextTables == LookupCategory

SpecTables == InitTables /\ [][NextTables]_vars

\* ------------------------------------------------- GeometryFactory calls
\* the factory side as one record
Factory == [cache |-> geometryCache, objects |-> geoObjects, result |-> Null]

\* GeometryFactory.createGeometry(c)
CreateGeometryCall ==
  /\ geoCalls < MaxGeoCalls
  /\ \E c \in GeometryConfigs :
       \E f \in {FactoryCreateGeometry(Factory, c)} :
         /\ geometryCache' = f.cache
         /\ geoObjects' = f.objects
         /\ returned' = Append(returned, [config |-> c, id |-> f.result])
         /\ seen' = seen \cup {GetCacheKey(c)}
  /\ geoCalls' = geoCalls + 1
  /\ lastGeoOp' = "create"
  /\ UNCHANGED <<sysVars, ctorVars, appVars>>

\* the application calls dispose() on a geometry createGeometry returned
DisposeReturned ==
  /\ geoCalls < MaxGeoCalls
  /\ \E k \in 1..Len(returned) :
       /\ ~geoObjects[returned[k].id].disposed
       /\ geoObjects' = [geoObjects EXCEPT ![returned[k].id].disposed = TRUE]
  /\ geoCalls' = geoCalls + 1
  /\ lastGeoOp' = "dispose"
  /\ UNCHANGED <<sysVars, ctorVars, appVars, geometryCache, returned, seen>>

\* GeometryFactory.clearCache()
ClearCacheCall ==
  /\ geoCalls < MaxGeoCalls
  /\ \E f \in {FactoryClearCache(Factory)} :
       /\ geometryCache' = f.cache
       /\ geoObjects' = f.objects
  /\ seen' = {}
  /\ geoCalls' = geoCalls + 1
  /\ lastGeoOp' = "clear"
  /\ UNCHANGED <<sysVars, ctorVars, appVars, returned>>

NextGeo ==
  \/ CreateGeometryCall
  \/ DisposeReturned
  \/ ClearCacheCall

SpecGeo == Init /\ [][NextGeo]_vars

\* --------------------------- ThreeRenderPlugin and ThreeEditorBridge calls
MaxAppCalls == 3

Canvases == {"canvas1", "canvas2"}

\* the configurations given to new ThreeRenderPlugin(config)
PluginCtorConfigs ==
  {a @@ b @@ c @@ d @@ e :
     a \in Opt("enableShadows", {FALSE}), b \in Opt("enableAntialiasing", {FALSE}),
     c \in Opt("backgroundColor", {WhiteHex}),
     d \in Opt("createDefaultEntities", {FALSE}), e \in Opt("canvas", {"canvas1"})}

\* the partial configurations given to updateConfig
PluginUpdateConfigs ==
  {[enableShadows |-> FALSE], [backgroundColor |-> WhiteHex],
   [canvas |-> "canvas2"], [createDefaultEntities |-> TRUE]}

\* the 'Directional Light' entity of createDefaultEntities and of
\* addDefaultSceneEntities
DefaultLightEntity ==
  Entity(TransformComponent(Vec(1000, 1000, 500), Vec(-45, 45, 0), Vec(100, 100, 100)),
         NoMesh, NoMaterial, NoGeometry,
         ThreeLightComponent([lightType |-> "directional",
                              color |-> StrColor(<<"#", "f", "f", "f", "f", "f", "f">>),
                              intensity |-> 100, castShadow |-> TRUE]),
         NoCamera)

\* their 'MainCamera' entity: a TransformComponent is all it is given
MainCameraEntity ==
  Entity(TransformComponent(Vec(0, 500, 1000), Vec(-15, 0, 0), Vec(100, 100, 100)),
         NoMesh, NoMaterial, NoGeometry, NoLight, NoCamera)

\* world.entities after the two entities are created
WithDefaultEntities(es) ==
  es \o <<[DefaultLightEntity EXCEPT !.id = Len(es) + 1],
          [MainCameraEntity EXCEPT !.id = Len(es) + 2]>>

\* the entities are added: world.entities and the record of where they are
AddDefaultEntities ==
  /\ entities' = WithDefaultEntities(entities)
  /\ defaults' = Append(defaults, [light |-> Len(entities) + 1,
                                   camera |-> Len(entities) + 2])

\* the options ThreeRenderPlugin.install passes to new ThreeRenderSystem(...)
InstallOptions(pc) == <<>>

\* new ThreeRenderSystem(opts): its own scene, default camera and renderer
NewRenderSystem(opts) ==
  /\ systemId' = systemId + 1
  /\ options' = MergeOptions(opts)
  /\ camera' = nextId
  /\ cameras' = cameras @@ (nextId :> DefaultCamera)
  /\ nextId' = nextId + 1
  /\ scene' = <<>>
  /\ frameCount' = 0
  /\ rendererDisposed' = FALSE
  /\ errors' = {}
  /\ lastRender' = [frame |-> 0, camera |-> Null, scene |-> <<>>]
  /\ threw' = FALSE

\* what a call leaves of the application side
Called(op, t) ==
  /\ appOp' = [op |-> op, threw |-> t]
  /\ appCalls' = appCalls + 1

\* install's catch: this.error(...) and throw error
InstallFailed ==
  /\ reported' = reported + 1
  /\ Called("install", TRUE)

\* ThreeRenderPlugin.install(world) into a world that holds no render system;
\* at is where it fails, if it does: in the constructor (no WebGL context), in
\* world.addSystem, or nowhere
PluginInstall ==
  /\ appCalls < MaxAppCalls
  /\ renderSystem = Null
  /\ worldSystems = {}
  /\ \E at \in {"none", "constructor", "addSystem"} :
       IF at = "constructor"
       THEN /\ InstallFailed
            /\ UNCHANGED <<sysVars, ctorVars, geoVars, pluginConfig, renderSystem,
                           systemId, worldSystems, canvas, bridge, defaults,
                           meshRenderers>>
       ELSE /\ NewRenderSystem(InstallOptions(pluginConfig))
            /\ renderSystem' = systemId + 1
            /\ canvas' = IF at = "none" /\ Has(pluginConfig, "canvas")
                         THEN pluginConfig.canvas
                         ELSE MergeOptions(InstallOptions(pluginConfig)).canvas
            /\ IF at = "addSystem"
               THEN /\ InstallFailed
                    /\ world' = FALSE
                    /\ isInitialized' = FALSE
                    /\ UNCHANGED <<entities, worldSystems, defaults>>
               ELSE /\ worldSystems' = worldSystems \cup {systemId + 1}
                    /\ world' = TRUE
                    /\ isInitialized' = TRUE
                    /\ IF pluginConfig.createDefaultEntities
                       THEN AddDefaultEntities
                       ELSE UNCHANGED <<entities, defaults>>
                    /\ Called("install", FALSE)
                    /\ UNCHANGED reported
            /\ UNCHANGED <<meshes, geometries, materials, lights, disposed, calls,
                           disturbed, ctorVars, geoVars, pluginConfig, bridge,
                           meshRenderers>>

\* uninstall with the assignment this._renderSystem = undefined left out
ForgetSystemKept(system) == system

\* uninstall: this._renderSystem = undefined
ForgetSystem(system) == Null

\* ThreeRenderPlugin.uninstall(world); failed is world.removeSystem throwing
PluginUninstall ==
  /\ appCalls < MaxAppCalls
  /\ IF renderSystem = Null
     THEN /\ Called("uninstall", FALSE)
          /\ UNCHANGED <<sysVars, ctorVars, geoVars, pluginConfig, renderSystem,
                         systemId, worldSystems, reported, canvas, bridge, defaults,
                         meshRenderers>>
     ELSE \E failed \in BOOLEAN :
            IF failed
            THEN /\ reported' = reported + 1
                 /\ Called("uninstall", TRUE)
                 /\ UNCHANGED <<sysVars, ctorVars, geoVars, pluginConfig,
                                renderSystem, systemId, worldSystems, canvas, bridge,
                                defaults, meshRenderers>>
            ELSE /\ worldSystems' = worldSystems \ {renderSystem}
                 /\ IF renderSystem \in worldSystems
                    THEN /\ \E st \in {Cleanup(St)} : Install(st)
                         /\ rendererDisposed' = TRUE
                         /\ isInitialized' = FALSE
                         /\ world' = FALSE
                         /\ disturbed' = TRUE
                    ELSE UNCHANGED <<entities, three, rendererDisposed,
                                     isInitialized, world, disturbed>>
                 /\ renderSystem' = ForgetSystem(renderSystem)
                 /\ Called("uninstall", FALSE)
                 /\ UNCHANGED <<frameCount, options, lastRender, threw, calls,
                                ctorVars, geoVars, pluginConfig, systemId, reported,
                                canvas, bridge, defaults, meshRenderers>>

\* ThreeRenderPlugin.updateConfig(c): the merge, and setCanvas when the canvas
\* is new and a render system exists
PluginUpdateConfig ==
  /\ appCalls < MaxAppCalls
  /\ \E c \in PluginUpdateConfigs :
       /\ pluginConfig' = c @@ pluginConfig
       /\ canvas' = IF /\ Has(c, "canvas")
                       /\ (~Has(pluginConfig, "canvas") \/ c.canvas # pluginConfig.canvas)
                       /\ renderSystem # Null
                    THEN c.canvas
                    ELSE canvas
  /\ Called("updateConfig", FALSE)
  /\ UNCHANGED <<sysVars, ctorVars, geoVars, renderSystem, systemId, worldSystems,
                 reported, bridge, defaults, meshRenderers>>

\* the application's own new ThreeRenderSystem({ canvas }), which it may pass
\* to world.addSystem
ConstructSystem ==
  /\ appCalls < MaxAppCalls
  /\ systemId = 0
  /\ \E cv \in Canvases, add \in BOOLEAN :
       /\ NewRenderSystem([canvas |-> cv])
       /\ canvas' = cv
       /\ worldSystems' = IF add THEN worldSystems \cup {systemId + 1} ELSE worldSystems
       /\ world' = add
       /\ isInitialized' = add
  /\ Called("new ThreeRenderSystem", FALSE)
  /\ UNCHANGED <<entities, meshes, geometries, materials, lights, disposed, calls,
                 disturbed, ctorVars, geoVars, pluginConfig, renderSystem, reported,
                 bridge, defaults, meshRenderers>>

\* the arguments new ThreeEditorBridge(world, canvas, renderSystem) is given:
\* the render system constructed last, when there is one, or none (Null)
BridgeArguments ==
  {[canvas |-> cv, renderSystem |-> rs] :
     cv \in Canvases, rs \in {Null, systemId}}

\* new ThreeEditorBridge(world, canvas, renderSystem): setCanvas on the system
\* it is given, a TypeError when it is given none
BridgeConstruct ==
  /\ appCalls < MaxAppCalls
  /\ ~bridge.made
  /\ \E a \in BridgeArguments :
       IF a.renderSystem = Null
       THEN /\ Called("new ThreeEditorBridge", TRUE)
            /\ UNCHANGED <<canvas, bridge>>
       ELSE /\ bridge' = [made |-> TRUE, renderSystem |-> a.renderSystem]
            /\ canvas' = a.canvas
            /\ Called("new ThreeEditorBridge", FALSE)
  /\ UNCHANGED <<sysVars, ctorVars, geoVars, pluginConfig, renderSystem, systemId,
                 worldSystems, reported, defaults, meshRenderers>>

\* ThreeEditorBridge.addDefaultSceneEntities()
BridgeAddDefaultSceneEntities ==
  /\ appCalls < MaxAppCalls
  /\ bridge.made
  /\ AddDefaultEntities
  /\ Called("addDefaultSceneEntities", FALSE)
  /\ UNCHANGED <<world, isInitialized, frameCount, options, three, rendererDisposed,
                 lastRender, threw, calls, disturbed, ctorVars, geoVars,
                 pluginConfig, renderSystem, systemId, worldSystems, reported,
                 canvas, bridge, meshRenderers>>

\* the plugin as constructed from any of the configurations; no render system
\* exists yet (the system-side variables hold nothing before one is made)
InitPlugin ==
  /\ InitSys
  /\ IdleConfig
  /\ IdleGeo
  /\ \E c \in PluginCtorConfigs : IdleApp(c)

NextPlugin ==
  \/ PluginInstall
  \/ PluginUninstall
  \/ PluginUpdateConfig
  \/ ConstructSystem
  \/ BridgeConstruct
  \/ BridgeAddDefaultSceneEntities
  \/ Update

SpecPlugin == InitPlugin /\ [][NextPlugin]_vars

\* ------------------------------------------------ EntityConverter calls
MaxWorld == 2

\* new MeshRendererComponent(material, castShadows, receiveShadows, meshType)
MeshRendererComponent(material, castShadows, receiveShadows, meshType) ==
  [has |-> TRUE, material |-> material, castShadows |-> castShadows,
   receiveShadows |-> receiveShadows, meshType |-> meshType]

NoMeshRenderer ==
  [MeshRendererComponent("DefaultMaterial", TRUE, TRUE, "box") EXCEPT !.has = FALSE]

\* convertMeshRenderer with the material name ignored
LegacyColorDefault(material) == StrColor(<<"#", "4", "C", "A", "F", "5", "0">>)

\* convertMeshRenderer: the colour chosen from meshRenderer.material
LegacyColor(material) ==
  IF material = "EnemyMaterial" THEN StrColor(<<"#", "F", "4", "4", "3", "3", "6">>)
  ELSE IF material = "GroundMaterial"
       THEN StrColor(<<"#", "7", "9", "5", "5", "4", "8">>)
       ELSE StrColor(<<"#", "4", "C", "A", "F", "5", "0">>)

\* convertMeshRenderer: the parameters chosen from meshRenderer.meshType
LegacyParameters(meshType) ==
  IF meshType = "sphere"
  THEN Params([radius |-> 50, widthSegments |-> 1600, heightSegments |-> 1200])
  ELSE IF meshType = "plane" THEN Params([width |-> 100, height |-> 100])
       ELSE Params([width |-> 100, height |-> 100, depth |-> 100])

\* EntityConverter.convertMeshRenderer, the components the entity is given
ConvertMeshRenderer(e, meshRenderer) ==
  [e EXCEPT
     !.mesh = ThreeMeshComponent(Null),
     !.material = ThreeMaterialComponent(
                    [materialType |-> "standard",
                     color |-> LegacyColor(meshRenderer.material),
                     metalness |-> 20, roughness |-> 80]),
     !.geometry = ThreeGeometryComponent(
                    IF meshRenderer.meshType # "" THEN meshRenderer.meshType ELSE "box",
                    LegacyParameters(meshRenderer.meshType))]

\* EntityConverter.convertAllEntities: world.entities afterwards
ConvertAll(es, renderers) ==
  [i \in 1..Len(es) |->
     IF i \in DOMAIN renderers THEN ConvertMeshRenderer(es[i], renderers[i]) ELSE es[i]]

\* EntityConverter.convertAllEntities(world): every MeshRendererComponent found
\* is removed from its entity
ConvertAllEntities ==
  /\ appCalls < MaxAppCalls
  /\ entities' = ConvertAll(entities, meshRenderers)
  /\ meshRenderers' = <<>>
  /\ Called("convertAllEntities", FALSE)
  /\ UNCHANGED <<world, isInitialized, frameCount, options, three, rendererDisposed,
                 lastRender, threw, calls, disturbed, ctorVars, geoVars,
                 pluginConfig, renderSystem, systemId, worldSystems, reported,
                 canvas, bridge, defaults>>

\* an entity of a legacy scene before it is given its MeshRendererComponent
LegacyEntity == Entity(T0, NoMesh, NoMaterial, NoGeometry, NoLight, NoCamera)

MeshRenderers ==
  {MeshRendererComponent(m, TRUE, FALSE, t) :
     m \in {"EnemyMaterial", "GroundMaterial", "MetalMaterial"},
     t \in {"box", "sphere", "plane", "custom"}}

\* an entity of the world and its MeshRendererComponent, if it has one
Slots ==
  {[e |-> LegacyEntity, r |-> x] : x \in MeshRenderers}
    \cup {[e |-> t, r |-> NoMeshRenderer] : t \in LightTemplates \cup {LegacyEntity}}

\* the worlds convertAllEntities is called on
LegacyWorlds == UNION {[1..n -> Slots] : n \in 0..MaxWorld}

InitConvert ==
  /\ InitSys
  /\ IdleConfig
  /\ IdleGeo
  /\ IdleApp(<<>>)

\* the application fills the world, legacy entities among the others
LoadWorld ==
  /\ appOp.op = "none"
  /\ \E w \in LegacyWorlds :
       /\ Len(w) > 0
       /\ entities' = [i \in 1..Len(w) |-> [w[i].e EXCEPT !.id = i]]
       /\ meshRenderers' = [i \in {j \in 1..Len(w) : w[j].r.has} |-> w[i].r]
  /\ Called("load", FALSE)
  /\ UNCHANGED <<world, isInitialized, frameCount, options, three, rendererDisposed,
                 lastRender, threw, calls, disturbed, ctorVars, geoVars,
                 pluginConfig, renderSystem, systemId, worldSystems, reported,
                 canvas, bridge, defaults>>

NextConvert ==
  \/ LoadWorld
  \/ ConvertAllEntities

SpecConvert == InitConvert /\ [][NextConvert]_vars

\* ------------------------------------------------ CameraUtils.animateCamera
\* Times are in milliseconds; progress and the eased value in thousandths.

\* toConfig.position?.x || 0, and y and z
PositionOrZero(c) == IF Has(c, "position") THEN c.position ELSE Vec(0, 0, 0)

\* Math.min(elapsed / duration, 1)
Progress(elapsed, duration) ==
  IF (elapsed * 1000) \div duration < 1000 THEN (elapsed * 1000) \div duration ELSE 1000

\* the ease in-out function
Eased(progress) ==
  IF progress < 500
  THEN (2 * progress * progress) \div 1000
  ELSE 1000 - ((2000 - 2 * progress) * (2000 - 2 * progress) * (2000 - 2 * progress))
                \div 2000000

\* THREE.MathUtils.lerp(x, y, t)
Lerp(x, y, t) == x + ((y - x) * t) \div 1000

\* Vector3.lerpVectors(v1, v2, alpha)
LerpVectors(v1, v2, alpha) ==
  Vec(Lerp(v1.x, v2.x, alpha), Lerp(v1.y, v2.y, alpha), Lerp(v1.z, v2.z, alpha))

\* what animateCamera computes before the first frame: startPos is the
\* camera's own position, fromConfig is not read
AnimationStart(cam, fromConfig, toConfig, duration) ==
  [camera |-> cam,
   startPos |-> cam.position,
   endPos |-> PositionOrZero(toConfig),
   startFOV |-> IF cam.perspective THEN cam.fov ELSE 7500,
   endFOV |-> IF cam.perspective THEN OrNum(toConfig, "fov", cam.fov) ELSE 7500,
   duration |-> duration, elapsed |-> 0, completed |-> FALSE]

\* animate(): one frame at the given elapsed time
Animate(a, elapsed) ==
  LET progress == Progress(elapsed, a.duration)
  IN [a EXCEPT
        !.elapsed = elapsed,
        !.camera.position = LerpVectors(a.startPos, a.endPos, Eased(progress)),
        !.camera.fov = IF a.camera.perspective
                       THEN Lerp(a.startFOV, a.endFOV, Eased(progress))
                       ELSE @,
        !.completed = ~(progress < 1000)]

\* CameraConfig values: DefaultPerspective, ThirdPerson, WideFOV, and
\* ThirdPerson narrowed
AnimationConfigs ==
  {[type |-> "perspective", fov |-> 7500, position |-> Vec(500, 500, 500)],
   [type |-> "perspective", fov |-> 7500, position |-> Vec(0, 500, 1000)],
   [type |-> "perspective", fov |-> 9000],
   [type |-> "perspective", fov |-> 6000, position |-> Vec(0, 500, 1000)]}

\* the cameras animated: createCamera(config) for a perspective config, and an
\* orthographic camera
AnimatedCameras ==
  {[perspective |-> TRUE, position |-> PositionOrZero(c), fov |-> c.fov] :
     c \in AnimationConfigs}
    \cup {[perspective |-> FALSE, position |-> Vec(500, 500, 500), fov |-> 0]}

AnimationCalls ==
  [kind : {"animate"},
   c : [camera : AnimatedCameras, fromConfig : AnimationConfigs,
        toConfig : AnimationConfigs, duration : {1000, 2000}]]

\* the time between two animation frames
FrameTimes == {250, 500, 1500}

InitAnimation ==
  /\ InitSys
  /\ IdleGeo
  /\ IdleApp(<<>>)
  /\ config \in AnimationCalls
  /\ built = [made |-> FALSE]

\* CameraUtils.animateCamera(camera, fromConfig, toConfig, duration): the
\* set-up and the first animate(), in the millisecond of the call
AnimateCamera ==
  /\ config.kind = "animate"
  /\ ~built.made
  /\ built' = [made |-> TRUE,
               obj |-> Animate(AnimationStart(config.c.camera, config.c.fromConfig,
                                              config.c.toConfig, config.c.duration),
                               0)]
  /\ UNCHANGED <<sysVars, config, geoVars, appVars>>

\* the requestAnimationFrame callback, while progress < 1 asked for one
AnimationFrame ==
  /\ config.kind = "animate"
  /\ built.made
  /\ ~built.obj.completed
  /\ \E dt \in FrameTimes :
       built' = [built EXCEPT !.obj = Animate(built.obj, built.obj.elapsed + dt)]
  /\ UNCHANGED <<sysVars, config, geoVars, appVars>>

NextAnimation ==
  \/ AnimateCamera
  \/ AnimationFrame

SpecAnimation == InitAnimation /\ [][NextAnimation]_vars

\* ==================================================================== claims
\* an update() that passed its guard
IsFrame == frameCount' = frameCount + 1

Count(seq, x) == Cardinality({k \in 1..Len(seq) : seq[k] = x})

\* the ids allocated so far
Allocated == 1..(nextId - 1)

\* the mesh of entity i was made by _createMesh (userData.entityId)
SystemMesh(i) ==
  /\ entities[i].mesh.has
  /\ entities[i].mesh.mesh # Null
  /\ meshes[entities[i].mesh.mesh].entityId = entities[i].id

\* C1 as stated: while the system is undisturbed, every update() leaves each
\* processed ThreeMeshComponent with a mesh that is in the scene exactly once
\* and is the mesh it had before, if it had one; the same for lights.
C1_Step ==
  (IsFrame /\ ~disturbed') =>
    \A i \in 1..Len(entities) :
      /\ Eligible(entities[i], "mesh") =>
           /\ entities'[i].mesh.mesh # Null
           /\ Count(scene', entities'[i].mesh.mesh) = 1
           /\ entities[i].mesh.mesh # Null =>
                entities'[i].mesh.mesh = entities[i].mesh.mesh
      /\ Eligible(entities[i], "light") =>
           /\ entities'[i].light.light # Null
           /\ Count(scene', entities'[i].light.light) = 1
           /\ entities[i].light.light # Null =>
                entities'[i].light.light = entities[i].light.light

C1_AsStated == [][C1_Step]_vars

\* C1 amended: a ThreeMeshComponent whose mesh is null gets a new mesh, added
\* to the scene once, in the first update() that processes it without
\* _createMesh throwing (a throwing creation leaves it null and is logged); a
\* component that already holds a mesh keeps that mesh in every update(), and
\* update() does not change how often it is in the scene; lights likewise
\* (their creation never throws).  While undisturbed, a mesh made by the
\* system is in the scene exactly once, and so is every light.
C1_AmendedStep ==
  /\ IsFrame =>
       \A i \in 1..Len(entities) :
         /\ Eligible(entities[i], "mesh") =>
              IF entities[i].mesh.mesh # Null
              THEN /\ entities'[i].mesh.mesh = entities[i].mesh.mesh
                   /\ Count(scene', entities[i].mesh.mesh) =
                        Count(scene, entities[i].mesh.mesh)
              ELSE \/ /\ entities'[i].mesh.mesh = Null
                      /\ entities[i].id \in errors'
                   \/ /\ entities'[i].mesh.mesh \notin Allocated \cup {Null}
                      /\ entities'[i].mesh.mesh \in DOMAIN meshes'
                      /\ Count(scene', entities'[i].mesh.mesh) = 1
         /\ Eligible(entities[i], "light") =>
              IF entities[i].light.light # Null
              THEN /\ entities'[i].light.light = entities[i].light.light
                   /\ Count(scene', entities[i].light.light) =
                        Count(scene, entities[i].light.light)
              ELSE /\ entities'[i].light.light \notin Allocated \cup {Null}
                   /\ entities'[i].light.light \in DOMAIN lights'
                   /\ Count(scene', entities'[i].light.light) = 1
  /\ ~disturbed' =>
       \A i \in 1..Len(entities') :
         /\ (entities'[i].mesh.has /\ entities'[i].mesh.mesh # Null) =>
              Count(scene', entities'[i].mesh.mesh) =
                IF meshes'[entities'[i].mesh.mesh].entityId = entities'[i].id
                THEN 1 ELSE 0
         /\ (entities'[i].light.has /\ entities'[i].light.light # Null) =>
              Count(scene', entities'[i].light.light) = 1

C1_Amended == [][C1_AmendedStep]_vars

\* C1 witness: a mesh made in one frame and reused in the next (its material
\* was replaced in a later frame than the one that made the mesh: another
\* object was allocated in between), in the scene once; and a light in the scene
C1_Witness ==
  /\ ~disturbed
  /\ frameCount = 2
  /\ \E i \in 1..Len(entities) :
       /\ SystemMesh(i)
       /\ Count(scene, entities[i].mesh.mesh) = 1
       /\ meshes[entities[i].mesh.mesh].material > entities[i].mesh.mesh + 1
  /\ \E i \in 1..Len(entities) :
       /\ entities[i].light.has
       /\ entities[i].light.light # Null
       /\ Count(scene, entities[i].light.light) = 1


\* r is deg * Math.PI / 180 in millionths of a radian, rounded down
IsRadians(r, deg) == r * 180 <= deg * PiMicro /\ deg * PiMicro < (r + 1) * 180

\* C2: at the end of every update() that passed its guard, every active entity
\* with a TransformComponent and a ThreeMeshComponent whose mesh exists has the
\* transform's position and scale on the mesh and the transform's rotation in
\* radians, whatever the needsUpdate flags are.
C2_Step ==
  IsFrame =>
    \A i \in 1..Len(entities) :
      (Eligible(entities[i], "mesh") /\ entities'[i].mesh.mesh # Null) =>
        /\ meshes'[entities'[i].mesh.mesh].position = entities'[i].transform.position
        /\ meshes'[entities'[i].mesh.mesh].scale = entities'[i].transform.scale
        /\ IsRadians(meshes'[entities'[i].mesh.mesh].rotation.x,
                     entities'[i].transform.rotation.x)
        /\ IsRadians(meshes'[entities'[i].mesh.mesh].rotation.y,
                     entities'[i].transform.rotation.y)
        /\ IsRadians(meshes'[entities'[i].mesh.mesh].rotation.z,
                     entities'[i].transform.rotation.z)

C2_TransformSync == [][C2_Step]_vars

\* C2 witness: after the second frame a mesh made by the system carries a
\* transform the application wrote after the entity was made (30 degrees about
\* y is 523598 millionths of a radian)
C2_Witness ==
  /\ frameCount = 2
  /\ lastRender.frame = 2
  /\ \E i \in 1..Len(entities) :
       /\ SystemMesh(i)
       /\ entities[i].transform = T0
       /\ meshes[entities[i].mesh.mesh].position = Vec(-50, 0, 25)
       /\ meshes[entities[i].mesh.mesh].rotation = Vec(0, 523598, 0)
       /\ meshes[entities[i].mesh.mesh].scale = Vec(100, 150, 100)

\* the frame replaced the material of mesh o of entity i: old one disposed,
\* a new object built from the component's fields, flag reset
MaterialReplaced(i, o) ==
  /\ meshes[o].material \in disposed'
  /\ meshes'[o].material \notin Allocated
  /\ materials'[meshes'[o].material] = CreateMaterial(entities[i].material)
  /\ ~entities'[i].material.needsUpdate

GeometryReplaced(i, o) ==
  /\ meshes[o].geometry \in disposed'
  /\ meshes'[o].geometry \notin Allocated
  /\ geometries'[meshes'[o].geometry] = CreateGeometry(entities[i].geometry)
  /\ ~entities'[i].geometry.needsUpdate

MaterialDirty(i) == entities[i].material.has /\ entities[i].material.needsUpdate
GeometryDirty(i) == entities[i].geometry.has /\ entities[i].geometry.needsUpdate

\* the mesh of entity i exists when the frame processes it
MeshExists(i) == Eligible(entities[i], "mesh") /\ entities[i].mesh.mesh # Null

\* the rebuild of the geometry of entity i threw: logged, nothing disposed or
\* replaced, the flag still set
GeometryRebuildFailed(i, o) ==
  /\ entities[i].geometry.parameters.isNull
  /\ meshes'[o].geometry = meshes[o].geometry
  /\ (meshes[o].geometry \in disposed') = (meshes[o].geometry \in disposed)
  /\ entities'[i].geometry.needsUpdate

\* C3: when update() processes a mesh entity whose mesh exists, a set material
\* flag means the old material is disposed, replaced by a new one built from
\* the component, and the flag reset; a set geometry flag means the same for
\* the geometry; a clear flag means the mesh keeps the identical object; after
\* the successful processing of a mesh entity both flags are false.  The
\* processing is unsuccessful (an error is logged for the entity) only when
\* building the geometry throws on null parameters: then the old geometry
\* stays, undisposed, and the geometry flag stays set.
C3_Step ==
  IsFrame =>
    \A i \in 1..Len(entities) :
      /\ MeshExists(i) =>
           /\ IF MaterialDirty(i) THEN MaterialReplaced(i, entities[i].mesh.mesh)
              ELSE meshes'[entities[i].mesh.mesh].material =
                     meshes[entities[i].mesh.mesh].material
           /\ IF GeometryDirty(i)
              THEN IF entities[i].id \in errors'
                   THEN GeometryRebuildFailed(i, entities[i].mesh.mesh)
                   ELSE GeometryReplaced(i, entities[i].mesh.mesh)
              ELSE /\ meshes'[entities[i].mesh.mesh].geometry =
                        meshes[entities[i].mesh.mesh].geometry
                   /\ entities[i].id \notin errors'
      /\ (Eligible(entities[i], "mesh") /\ entities[i].id \notin errors') =>
           /\ entities'[i].mesh.mesh # Null
           /\ entities[i].material.has => ~entities'[i].material.needsUpdate
           /\ entities[i].geometry.has => ~entities'[i].geometry.needsUpdate

C3_DirtyFlags == [][C3_Step]_vars

\* C3 witness: a mesh made by the system (geometry o-2, material o-1) whose
\* geometry and material were both replaced: the first ones disposed, newer
\* objects on the mesh, both flags false
C3_Witness ==
  /\ ~disturbed
  /\ \E i \in 1..Len(entities) :
       /\ SystemMesh(i)
       /\ meshes[entities[i].mesh.mesh].material > entities[i].mesh.mesh
       /\ meshes[entities[i].mesh.mesh].geometry > entities[i].mesh.mesh
       /\ (entities[i].mesh.mesh - 1) \in disposed
       /\ (entities[i].mesh.mesh - 2) \in disposed
       /\ meshes[entities[i].mesh.mesh].material \notin disposed
       /\ entities[i].material.has /\ ~entities[i].material.needsUpdate
       /\ entities[i].geometry.has /\ ~entities[i].geometry.needsUpdate

\* C4 as stated: the update() that processes a light entity whose needsUpdate
\* is set makes the light's color, intensity and castShadow those of the
\* component and resets the flag; with the flag clear an existing light keeps
\* them; the transform position is pushed either way.  (Stated for the colours
\* the component's type allows: strings.)
C4_Step ==
  IsFrame =>
    \A i \in 1..Len(entities) :
      (Eligible(entities[i], "light") /\ entities[i].light.color.isStr) =>
        /\ entities'[i].light.light # Null
        /\ lights'[entities'[i].light.light].position = entities[i].transform.position
        /\ IF entities[i].light.needsUpdate
           THEN /\ lights'[entities'[i].light.light].color =
                     ThreeColor(entities[i].light.color)
                /\ lights'[entities'[i].light.light].intensity =
                     entities[i].light.intensity
                /\ lights'[entities'[i].light.light].castShadow =
                     entities[i].light.castShadow
                /\ ~entities'[i].light.needsUpdate
           ELSE entities[i].light.light # Null =>
                  /\ lights'[entities[i].light.light].color =
                       lights[entities[i].light.light].color
                  /\ lights'[entities[i].light.light].intensity =
                       lights[entities[i].light.light].intensity
                  /\ lights'[entities[i].light.light].castShadow =
                       lights[entities[i].light.light].castShadow

C4_AsStated == [][C4_Step]_vars

\* the camera entity update() processes: the first eligible one
ProcessedCamera(i) ==
  /\ Eligible(entities[i], "camera")
  /\ \A j \in 1..(i - 1) : ~Eligible(entities[j], "camera")

\* C5 as stated: the update() that processes a camera entity whose needsUpdate
\* is set brings its THREE camera into agreement with the component's fields
\* and clears needsUpdate.
C5_Step ==
  IsFrame =>
    \A i \in 1..Len(entities) :
      (ProcessedCamera(i) /\ entities[i].camera.needsUpdate) =>
        /\ entities'[i].camera.camera # Null
        /\ cameras'[entities'[i].camera.camera] =
             [CreateCamera(entities[i].camera) EXCEPT
                !.position = entities[i].transform.position,
                !.rotation = RotationRad(entities[i].transform.rotation)]
        /\ ~entities'[i].camera.needsUpdate

C5_AsStated == [][C5_Step]_vars


\* C6: an error thrown while one mesh or light entity is processed is logged
\* and stays inside that entity's processing: update() does not throw, every
\* other eligible mesh and light entity of the frame is processed (its object
\* exists, carries the transform, its flags are reset), and the frame ends
\* with the render of the scene.
C6_Step ==
  IsFrame =>
    /\ ~threw'
    /\ lastRender' = [frame |-> frameCount', camera |-> camera', scene |-> scene']
    /\ \A i \in 1..Len(entities) :
         /\ (Eligible(entities[i], "mesh") /\ entities[i].id \notin errors') =>
              /\ entities'[i].mesh.mesh # Null
              /\ meshes'[entities'[i].mesh.mesh].position =
                   entities[i].transform.position
              /\ entities[i].material.has => ~entities'[i].material.needsUpdate
              /\ entities[i].geometry.has => ~entities'[i].geometry.needsUpdate
         /\ Eligible(entities[i], "light") =>
              /\ entities'[i].light.light # Null
              /\ lights'[entities'[i].light.light].position =
                   entities[i].transform.position
              /\ entities[i].id \notin errors' => ~entities'[i].light.needsUpdate
         /\ entities[i].id \in errors' =>
              \/ Eligible(entities[i], "mesh") /\ entities[i].geometry.parameters.isNull
              \/ Eligible(entities[i], "light") /\ ~entities[i].light.color.isStr

C6_ErrorsPerEntity == [][C6_Step]_vars

\* C6 witness: a frame that logged an error for one entity, made the mesh or
\* light of a later entity, and rendered it
C6_Witness ==
  /\ ~threw
  /\ frameCount >= 1
  /\ lastRender.frame = frameCount
  /\ \E i \in 1..Len(entities) :
       /\ entities[i].id \in errors
       /\ \E j \in (i + 1)..Len(entities) :
            \/ /\ SystemMesh(j)
               /\ Count(lastRender.scene, entities[j].mesh.mesh) = 1
            \/ /\ entities[j].light.has
               /\ entities[j].light.light # Null
               /\ Count(lastRender.scene, entities[j].light.light) = 1

\* a step of dispose() or onRemovedFromWorld(): an application call that
\* leaves the entities as they are
IsDisposal == calls' = calls + 1 /\ entities' = entities

\* C7: dispose() and onRemovedFromWorld() dispose the geometry and the material
\* of every mesh of the scene, empty the scene and dispose the renderer;
\* onRemovedFromWorld() also leaves the system uninitialized, and while it is
\* uninitialized no step makes a frame, a render, a light, a camera or a
\* system mesh.
C7_Step ==
  /\ IsDisposal =>
       /\ \A k \in 1..Len(scene) :
            scene[k] \in DOMAIN meshes =>
              /\ meshes[scene[k]].geometry \in disposed'
              /\ meshes[scene[k]].material \in disposed'
       /\ scene' = <<>>
       /\ rendererDisposed'
       /\ (world /\ ~world') => ~isInitialized'
  /\ (~isInitialized /\ ~isInitialized') =>
       /\ frameCount' = frameCount
       /\ lastRender' = lastRender
       /\ scene' = scene \/ scene' = <<>>
       /\ lights' = lights
       /\ cameras' = cameras
       /\ \A o \in DOMAIN meshes' : o \notin DOMAIN meshes => meshes'[o].entityId = 0

C7_Disposal == [][C7_Step]_vars

\* C7 witness: after onRemovedFromWorld() the scene is empty, the renderer is
\* disposed, the system is uninitialized, and a mesh the system had made and
\* rendered has its geometry and its material disposed
C7_Witness ==
  /\ rendererDisposed
  /\ scene = <<>>
  /\ ~isInitialized
  /\ ~world
  /\ \E i \in 1..Len(entities) :
       /\ SystemMesh(i)
       /\ Count(lastRender.scene, entities[i].mesh.mesh) = 1
       /\ meshes[entities[i].mesh.mesh].geometry \in disposed
       /\ meshes[entities[i].mesh.mesh].material \in disposed


CtorKinds == {"material", "light", "camera"}

\* the component the constructor of that kind makes from an empty config
DefaultComponent(kind) ==
  CASE kind = "material" -> ThreeMaterialComponent(<<>>)
    [] kind = "light" -> ThreeLightComponent(<<>>)
    [] kind = "camera" -> ThreeCameraComponent(<<>>)

\* the fields a constructor of that kind reads from its config
CtorFields(kind) ==
  CASE kind = "material" ->
         {"materialType", "color", "metalness", "roughness", "emissive",
          "emissiveIntensity", "transparent", "opacity", "wireframe", "texture"}
    [] kind = "light" -> {"lightType", "color", "intensity", "castShadow"}
    [] kind = "camera" -> {"cameraType", "fov", "aspect", "near", "far"}

\* C8 as stated: a component constructor stores every field present in its
\* config unchanged (roughness 0, opacity 0, intensity 0, transparent false
\* included) and uses the default only for a field the config lacks.
C8_AsStated ==
  (built.made /\ config.kind \in CtorKinds) =>
    /\ \A k \in DOMAIN config.c : built.obj[k] = config.c[k]
    /\ \A k \in CtorFields(config.kind) \ DOMAIN config.c :
         built.obj[k] = DefaultComponent(config.kind)[k]

\* the numeric material properties a config can give
NumericProps ==
  {"metalness", "roughness", "emissiveIntensity", "opacity", "clearcoat",
   "transmission", "thickness", "ior", "envMapIntensity"}

\* the material class config.type selects
ClassOfType(t) ==
  CASE t = "standard" -> "MeshStandardMaterial"
    [] t = "phong" -> "MeshPhongMaterial"
    [] t = "lambert" -> "MeshLambertMaterial"
    [] t = "basic" -> "MeshBasicMaterial"
    [] t = "physical" -> "MeshPhysicalMaterial"
    [] t = "toon" -> "MeshToonMaterial"
    [] t = "matcap" -> "MeshMatcapMaterial"
    [] t = "wireframe" -> "MeshBasicMaterial"
    [] OTHER -> "MeshStandardMaterial"

\* C9 as stated: the material MaterialFactory.createMaterial makes has the
\* class config.type selects, and every numeric property the config gives
\* that the material takes has the config's value on the material.
C9_AsStated ==
  (built.made /\ config.kind = "factory") =>
    /\ built.obj.class = ClassOfType(config.c.type)
    /\ \A k \in (NumericProps \cap DOMAIN config.c) \cap DOMAIN built.obj :
         built.obj[k] = config.c[k]

\* the geometries made by a constructor, not by clone()
Constructed(objects) ==
  Cardinality({i \in 1..Len(objects) : objects[i].by = "constructor"})

IsGeoCall(op) == geoCalls' = geoCalls + 1 /\ lastGeoOp' = op

\* what a createGeometry step did, r being the call it appended to returned
CreateGeometryStep(r) ==
  /\ r.id \notin 1..Len(geoObjects)
  /\ r.id \in 1..Len(geoObjects')
  /\ r.id \notin Cached(geometryCache')
  /\ ~geoObjects'[r.id].disposed
  /\ geoObjects'[r.id].geometry = NewGeometry(r.config)
  /\ Constructed(geoObjects') =
       Constructed(geoObjects) +
         (IF GetCacheKey(r.config) \in DOMAIN geometryCache THEN 0 ELSE 1)
  /\ GetCacheKey(r.config) \in DOMAIN geometryCache =>
       geometryCache' = geometryCache
  /\ \A i \in 1..Len(geoObjects) : geoObjects'[i] = geoObjects[i]

\* C10: createGeometry constructs a geometry only when the cache has no entry
\* for the config's serialization; the cache holds exactly one entry per
\* serialization seen since the last clearCache(); every call returns a new
\* object that is neither cached nor returned before, whatever was disposed
\* in between; no cached geometry is disposed while it is cached; clearCache()
\* disposes every cached geometry and leaves the cache empty.
C10_Step ==
  /\ IsGeoCall("create") => CreateGeometryStep(returned'[Len(returned')])
  /\ IsGeoCall("clear") =>
       /\ geometryCache' = <<>>
       /\ \A id \in Cached(geometryCache) : geoObjects'[id].disposed
  /\ DOMAIN geometryCache' = seen'
  /\ \A j, k \in 1..Len(returned') : returned'[j].id = returned'[k].id => j = k
  /\ \A k \in 1..Len(returned') : returned'[k].id \notin Cached(geometryCache')
  /\ \A id \in Cached(geometryCache') : ~geoObjects'[id].disposed

C10_Caching == [][C10_Step]_vars

\* C10 witness: two configs with one serialization, the second call served by
\* a clone after the first result was disposed, and a second cache entry
C10_Witness ==
  /\ Cardinality(DOMAIN geometryCache) = 2
  /\ \E j, k \in 1..Len(returned) :
       /\ j < k
       /\ returned[j].config # returned[k].config
       /\ GetCacheKey(returned[j].config) = GetCacheKey(returned[k].config)
       /\ geoObjects[returned[j].id].disposed
       /\ geoObjects[returned[k].id].by = "clone"
       /\ ~geoObjects[returned[k].id].disposed


\* entities i and j have meshes the system made from the same geometry
\* configuration, that of i first
SameGeometryConfig(i, j) ==
  /\ SystemMesh(i)
  /\ SystemMesh(j)
  /\ entities[i].mesh.mesh < entities[j].mesh.mesh
  /\ entities[i].geometry.has
  /\ entities[j].geometry.has
  /\ entities[i].geometry.geometryType = entities[j].geometry.geometryType
  /\ entities[i].geometry.parameters = entities[j].geometry.parameters
  /\ meshes[entities[i].mesh.mesh].geometry < entities[i].mesh.mesh
  /\ meshes[entities[j].mesh.mesh].geometry < entities[j].mesh.mesh

\* C11 as stated: when the render system has made meshes for two entities
\* whose ThreeGeometryComponents have the same geometryType and parameters,
\* the geometry of the second was not made by a constructor (it came through
\* the geometry cache).
C11_AsStated ==
  \A i, j \in 1..Len(entities) :
    SameGeometryConfig(i, j) =>
      geometries[meshes[entities[j].mesh.mesh].geometry].by # "constructor"


\* C12: in each of the four modules a name is listed in the category table
\* exactly once when it is a key of the preset table, and not at all when it
\* is not: the categories partition the preset keys.
C12_Partition ==
  (built.made /\ config.kind = "category") =>
    Cardinality(built.obj.places) = (IF built.obj.preset THEN 1 ELSE 0)

\* C12 witness: TintedGlass looked up in the material tables: a preset, listed
\* once, second in Glass
C12_Witness ==
  /\ built.made
  /\ config = [kind |-> "category", c |-> [table |-> "material", name |-> "TintedGlass"]]
  /\ built.obj = [places |-> {<<"Glass", 2>>}, preset |-> TRUE]

\* a plugin, bridge or converter call op was made in this step
IsCall(op) == appCalls' = appCalls + 1 /\ appOp'.op = op

\* C13: after install(world) returns, getRenderSystem() is a render system that
\* is registered with the world (and has had onAddedToWorld); after
\* uninstall(world) returns, that system is no longer registered and
\* getRenderSystem() is undefined; uninstall() with no render system installed
\* changes nothing of the plugin, the world or the system; an install() that
\* fails reports the error once and throws.
C13_Step ==
  /\ (IsCall("install") /\ ~appOp'.threw) =>
       /\ renderSystem' # Null
       /\ renderSystem' \in worldSystems'
       /\ world' /\ isInitialized'
  /\ (IsCall("install") /\ appOp'.threw) => reported' = reported + 1
  /\ (IsCall("uninstall") /\ ~appOp'.threw) =>
       /\ renderSystem' = Null
       /\ renderSystem \notin worldSystems'
       /\ renderSystem = Null =>
            UNCHANGED <<sysVars, pluginConfig, renderSystem, systemId, worldSystems,
                        reported, canvas, bridge, defaults>>
       /\ renderSystem \in worldSystems => ~world' /\ ~isInitialized'

C13_Lifecycle == [][C13_Step]_vars

\* install, then uninstall, have both returned: the system made is out of the
\* world again and the plugin holds none
C13_Witness ==
  /\ appOp = [op |-> "uninstall", threw |-> FALSE]
  /\ systemId = 1
  /\ renderSystem = Null
  /\ worldSystems = {}
  /\ rendererDisposed

\* C14: the render system that a returned install() created has the options the
\* plugin configuration asks for: enableShadows as configured, antialias as
\* enableAntialiasing is configured, and the configured backgroundColor.
C14_AsStated ==
  (appOp = [op |-> "install", threw |-> FALSE]) =>
    /\ options.enableShadows = pluginConfig.enableShadows
    /\ options.antialias = pluginConfig.enableAntialiasing
    /\ ThreeColor(options.backgroundColor) = ThreeColor(pluginConfig.backgroundColor)

\* C15: install() with createDefaultEntities set, and addDefaultSceneEntities(),
\* add exactly two entities, a directional light and a main camera; in the
\* update() after, the light's object is in the scene and the render goes
\* through the camera of the main-camera entity.
C15_Step ==
  /\ (\/ IsCall("install") /\ ~appOp'.threw /\ pluginConfig.createDefaultEntities
      \/ IsCall("addDefaultSceneEntities")) =>
       /\ Len(entities') = Len(entities) + 2
       /\ Len(defaults') = Len(defaults) + 1
       /\ entities'[Len(entities) + 1].light.has
       /\ entities'[Len(entities) + 1].light.lightType = "directional"
  /\ (IsFrame /\ ~threw' /\ Len(defaults) = 1) =>
       /\ Count(scene', entities'[defaults[1].light].light.light) = 1
       /\ entities'[defaults[1].camera].camera.has
       /\ lastRender'.frame = frameCount'
       /\ lastRender'.camera = entities'[defaults[1].camera].camera.camera

C15_AsStated == [][C15_Step]_vars

\* C16: new ThreeEditorBridge(world, canvas) returns a bridge whose render
\* system is registered with the world (and has had onAddedToWorld, so that
\* its update() runs frames) and renders to the canvas given; getRenderer()
\* is that system.
C16_Step ==
  IsCall("new ThreeEditorBridge") =>
    /\ ~appOp'.threw
    /\ bridge'.made
    /\ bridge'.renderSystem = systemId'
    /\ bridge'.renderSystem \in worldSystems'
    /\ world' /\ isInitialized'
    /\ canvas' \in Canvases

C16_AsStated == [][C16_Step]_vars

\* C17: after convertAllEntities(world) no entity has a MeshRendererComponent;
\* every entity that had one has a ThreeMeshComponent, a ThreeMaterialComponent
\* coloured #F44336 for 'EnemyMaterial', #795548 for 'GroundMaterial' and
\* #4CAF50 otherwise, and a ThreeGeometryComponent of its meshType; every other
\* entity is as it was; a call on a world already converted changes nothing.
C17_Step ==
  IsCall("convertAllEntities") =>
    /\ DOMAIN meshRenderers' = {}
    /\ Len(entities') = Len(entities)
    /\ \A i \in 1..Len(entities) :
         IF i \in DOMAIN meshRenderers
         THEN /\ entities'[i].mesh.has
              /\ entities'[i].material.has
              /\ entities'[i].material.color =
                   (CASE meshRenderers[i].material = "EnemyMaterial" ->
                           StrColor(<<"#", "F", "4", "4", "3", "3", "6">>)
                      [] meshRenderers[i].material = "GroundMaterial" ->
                           StrColor(<<"#", "7", "9", "5", "5", "4", "8">>)
                      [] OTHER -> StrColor(<<"#", "4", "C", "A", "F", "5", "0">>))
              /\ entities'[i].geometry.has
              /\ entities'[i].geometry.geometryType = meshRenderers[i].meshType
              /\ entities'[i].transform = entities[i].transform
              /\ entities'[i].light = entities[i].light
              /\ entities'[i].camera = entities[i].camera
         ELSE entities'[i] = entities[i]
    /\ appOp.op = "convertAllEntities" => UNCHANGED <<entities, meshRenderers>>

C17_Conversion == [][C17_Step]_vars

\* a world of an 'EnemyMaterial' sphere and a light has been converted, twice
C17_Witness ==
  /\ appOp.op = "convertAllEntities"
  /\ appCalls = 3
  /\ Len(entities) = 2
  /\ entities[1].geometry.has /\ entities[1].geometry.geometryType = "sphere"
  /\ entities[1].material.color = StrColor(<<"#", "F", "4", "4", "3", "3", "6">>)
  /\ entities[2].light.has /\ ~entities[2].mesh.has
  /\ DOMAIN meshRenderers = {}

\* C18: the first frame of animateCamera leaves the camera at fromConfig's
\* position; when the animation has completed the camera is at toConfig's
\* position and, for a perspective camera and a toConfig with a fov, at that fov.
C18_AsStated ==
  (config.kind = "animate" /\ built.made) =>
    /\ (built.obj.elapsed = 0 /\ Has(config.c.fromConfig, "position")) =>
         built.obj.camera.position = config.c.fromConfig.position
    /\ (built.obj.completed /\ Has(config.c.toConfig, "position")) =>
         built.obj.camera.position = config.c.toConfig.position
    /\ (built.obj.completed /\ built.obj.camera.perspective
          /\ Has(config.c.toConfig, "fov")) =>
         built.obj.camera.fov = config.c.toConfig.fov

\* the objects update() added to the scene come after the ones it found there,
\* the meshes among them before the lights
MeshesThenLights ==
  /\ Len(scene') >= Len(scene)
  /\ SubSeq(scene', 1, Len(scene)) = scene
  /\ \A k, l \in (Len(scene) + 1)..Len(scene') :
       (scene'[k] \in DOMAIN meshes' /\ scene'[l] \in DOMAIN lights') => k < l

\* the frame ends with the one render of the scene as the frame left it,
\* through the camera the frame chose: the camera of the first eligible camera
\* entity, or the camera held before when there is none
RenderedLast ==
  /\ lastRender' = [frame |-> frameCount', camera |-> camera', scene |-> scene']
  /\ \A i \in 1..Len(entities) :
       ProcessedCamera(i) =>
         /\ camera' = entities'[i].camera.camera
         /\ camera' # Null
         /\ cameras'[camera'].position = entities[i].transform.position
  /\ (\A i \in 1..Len(entities) : ~Eligible(entities[i], "camera")) => camera' = camera

\* C19 as stated: every update() that passes its guard processes the meshes,
\* then the lights, then the camera entity, and then renders once through the
\* camera chosen in the frame; every entity that was eligible before the
\* update() has its object in the rendered scene, carrying its transform.
C19_Step ==
  IsFrame =>
    /\ MeshesThenLights
    /\ RenderedLast
    /\ \A i \in 1..Len(entities) :
         /\ Eligible(entities[i], "mesh") =>
              /\ entities'[i].mesh.mesh # Null
              /\ Count(lastRender'.scene, entities'[i].mesh.mesh) >= 1
              /\ meshes'[entities'[i].mesh.mesh].position = entities[i].transform.position
         /\ Eligible(entities[i], "light") =>
              /\ entities'[i].light.light # Null
              /\ Count(lastRender'.scene, entities'[i].light.light) >= 1
              /\ lights'[entities'[i].light.light].position = entities[i].transform.position

C19_AsStated == [][C19_Step]_vars

\* C19 amended: the order and the render are as stated.  An entity eligible
\* before the update() has its transform on its object in that render whenever
\* it has an object.  The object is in the rendered scene when this update()
\* creates it (a creation that throws is logged and leaves none), or when the
\* system created it earlier and no dispose(), onRemovedFromWorld() or
\* ThreeMeshComponent.dispose() has run; a mesh the application passed to the
\* ThreeMeshComponent constructor is never added to the scene by update().
C19_AmendedStep ==
  IsFrame =>
    /\ MeshesThenLights
    /\ RenderedLast
    /\ \A i \in 1..Len(entities) :
         /\ Eligible(entities[i], "mesh") =>
              /\ entities'[i].mesh.mesh # Null =>
                   meshes'[entities'[i].mesh.mesh].position =
                     entities[i].transform.position
              /\ (entities[i].mesh.mesh = Null /\ entities[i].id \notin errors') =>
                   /\ entities'[i].mesh.mesh # Null
                   /\ Count(lastRender'.scene, entities'[i].mesh.mesh) = 1
              /\ (SystemMesh(i) /\ ~disturbed) =>
                   Count(lastRender'.scene, entities[i].mesh.mesh) = 1
              /\ (entities[i].mesh.mesh # Null /\ ~SystemMesh(i)) =>
                   Count(lastRender'.scene, entities[i].mesh.mesh) = 0
         /\ Eligible(entities[i], "light") =>
              /\ entities'[i].light.light # Null
              /\ lights'[entities'[i].light.light].position =
                   entities[i].transform.position
              /\ (entities[i].light.light = Null \/ ~disturbed) =>
                   Count(lastRender'.scene, entities'[i].light.light) = 1

C19_Amended == [][C19_AmendedStep]_vars

\* one update() has made a mesh and a light, the mesh ahead of the light in
\* the scene, and has rendered them through the camera of a camera entity
C19_Witness ==
  /\ frameCount = 1
  /\ lastRender = [frame |-> 1, camera |-> camera, scene |-> scene]
  /\ Len(scene) = 2
  /\ scene[1] \in DOMAIN meshes
  /\ scene[2] \in DOMAIN lights
  /\ \E i \in 1..Len(entities) :
       entities[i].camera.has /\ entities[i].camera.camera = camera

====
